---- MODULE Spec2Model ----
(***************************************************************************)
(* Model of pgforecast: the scoring engine (metrics.go), the tuning        *)
(* defaults (tuning.go) and the daily aggregation in GenerateForecast.     *)
(*                                                                         *)
(* Number representation.  Go float64 quantities are modelled exactly as   *)
(* fixed-point integers; no floating-point rounding error is modelled.     *)
(*   wind speeds, gust speeds ........ tenths of a speed unit              *)
(*   angles (degrees) ................ quarters of a degree                *)
(*   temperatures, dew point ......... tenths of a degree Celsius          *)
(*   geopotential heights ............ metres                              *)
(*   CAPE ............................ J/kg                                *)
(*   scores, bonuses, penalties ...... quarters of a point                 *)
(*   gust factor, lapse-rate limits .. tenths                              *)
(* A quotient the code computes in float64 is kept as a pair <<n, d>> with *)
(* d > 0 and compared by cross-multiplication.                             *)
(***************************************************************************)
EXTENDS Integers, Sequences, FiniteSets

VARIABLES call, ret

vars == <<call, ret>>

(* A caller holds the arguments of one invocation in call; ret is <<>>     *)
(* until the invoked function has returned, then <<result>>.               *)
Returned == ret # <<>>

-----------------------------------------------------------------------------
(* Scales of the fixed-point representation.                               *)

Scale == [speed |-> 10, angle |-> 4, score |-> 4, temp |-> 10, factor |-> 10]
SpeedScale == Scale.speed
AngleScale == Scale.angle
ScoreScale == Scale.score
TempScale == Scale.temp

-----------------------------------------------------------------------------
(* Go arithmetic.                                                          *)

Abs(x) == IF x < 0 THEN -x ELSE x

(* int(x) of a float64 x = n/d, d > 0: truncation toward zero.             *)
GoInt(n, d) == IF n >= 0 THEN n \div d ELSE -((-n) \div d)

(* a % m on Go ints: the result has the sign of a.                         *)
GoRem(a, m) == IF a >= 0 THEN a % m ELSE -((-a) % m)

(* a / b on Go ints, b > 0: truncation toward zero.                        *)
GoDiv(a, b) == IF a >= 0 THEN a \div b ELSE -((-a) \div b)

(* math.Round(n/d), d > 0: nearest integer, halves away from zero.         *)
MathRound(n, d) ==
  IF n >= 0 THEN (2 * n + d) \div (2 * d) ELSE -((2 * (-n) + d) \div (2 * d))

-----------------------------------------------------------------------------
(* Constants of metrics.go.                                                *)

CompassDirectionCount == 16
PressureLevelMinHPa == 850
PressureLevelMaxHPa == 1000
LapseRatePressureHigh == 925
LapseRatePressureLow == 700
MetersPerKm == 1000
SpreadToCloudbaseMultiplier == 1000
ScoreMin == 1
ScoreMax == 5
PrecipProbHighThreshold == 50
PrecipProbLowThreshold == 30

(* 22.5 degrees, in quarter degrees.                                       *)
DegreesPerCompassPoint == (45 * AngleScale) \div 2
DegreesHalfCircle == 180 * AngleScale
DegreesFullCircle == 360 * AngleScale
(* 6.5 C/km as the quotient 65/10.                                         *)
DefaultLapseRate == <<65, 10>>
(* 9.0 C/km, in tenths.                                                    *)
LapseRateStrongThreshold == 9 * Scale.factor
(* 2.5, in tenths.                                                         *)
SpreadToCloudbaseDivisor == (5 * Scale.factor) \div 2
WindDirFarOffAngle == 90 * AngleScale
WindDirModerateOffAngle == 45 * AngleScale
WindDirMarginalAngle == 20 * AngleScale

-----------------------------------------------------------------------------
(* tuning.go: DefaultTuningConfig.                                         *)

DefaultTuningConfig ==
  [ Wind |-> [ IdealMin |-> 8 * SpeedScale, IdealMax |-> 18 * SpeedScale,
               AcceptableMin |-> 5 * SpeedScale, AcceptableMax |-> 22 * SpeedScale,
               DangerousMax |-> 25 * SpeedScale,
               MaxGustFactor |-> 15, DangerousGustFactor |-> 20 ],
    Gradient |-> [ LowThreshold |-> 10 * SpeedScale, HighThreshold |-> 20 * SpeedScale,
                   HighPenalty |-> -2 * ScoreScale, MediumPenalty |-> -1 * ScoreScale ],
    Thermal |-> [ CAPEWeak |-> 100, CAPEModerate |-> 300, CAPEStrong |-> 1000,
                  CAPEExtreme |-> 2500, LapseRateBonus |-> 80 ],
    Orographic |-> [ MinWindSpeed |-> 8 * SpeedScale, StrongAngle |-> 15 * AngleScale,
                     ModerateAngle |-> 30 * AngleScale, WeakAngle |-> 45 * AngleScale ],
    Cloudbase |-> [ MinRealisticFt |-> 200 ],
    Scoring |-> [ BaseScore |-> 10, WindIdealBonus |-> 4, WindAcceptableBonus |-> 2,
                  WindDangerPenalty |-> -8, WindHighPenalty |-> -4,
                  DirOnBonus |-> 6, DirOffPenalty |-> -8,
                  GustHighPenalty |-> -6, GustMedPenalty |-> -2,
                  RainPenalty |-> -10, RainProbPenalty |-> -2,
                  GradientHighPenalty |-> -6, GradientMedPenalty |-> -2,
                  CAPEBonus |-> 2, ThermalStrongBonus |-> 2 ],
    XC |-> [ MinCloudbaseFt |-> 3000, GoodCloudbaseFt |-> 4000,
             MaxWindSpeed |-> 20 * SpeedScale, MinWindSpeed |-> 8 * SpeedScale,
             EpicThreshold |-> 7, HighThreshold |-> 5, MediumThreshold |-> 3 ] ]

-----------------------------------------------------------------------------
(* metrics.go: angular utilities.                                          *)

CompassPoints ==
  << "N", "NNE", "NE", "ENE", "E", "ESE", "SE", "SSE",
     "S", "SSW", "SW", "WSW", "W", "WNW", "NW", "NNW" >>

(* DegreesToCompass of the float64 n/d degrees (n in quarter degrees).     *)
CompassOfQuotient(n, d) ==
  LET r == GoRem(MathRound(n, d * DegreesPerCompassPoint), CompassDirectionCount)
      idx == IF r < 0 THEN r + CompassDirectionCount ELSE r
  IN  CompassPoints[idx + 1]

DegreesToCompass(deg) == CompassOfQuotient(deg, 1)

angleDiff(a, b) ==
  LET d == Abs(a - b)
  IN  IF d > DegreesHalfCircle THEN DegreesFullCircle - d ELSE d

(* Mutant of isInWindRange: the lower edge of the range is left out.       *)
isInWindRangeOpenMin(dir, min, max) ==
  LET d == GoRem(GoInt(dir, AngleScale), 360)
  IN  IF min <= max THEN d > min /\ d <= max
                    ELSE d > min \/ d <= max

isInWindRange(dir, min, max) ==
  LET d == GoRem(GoInt(dir, AngleScale), 360)
  IN  IF min <= max THEN d >= min /\ d <= max
                    ELSE d >= min \/ d <= max

distanceFromWindRange(dir, min, max) ==
  IF isInWindRange(dir, min, max) THEN 0
  ELSE LET dMin == angleDiff(dir, min * AngleScale)
           dMax == angleDiff(dir, max * AngleScale)
       IN  IF dMin < dMax THEN dMin ELSE dMax

-----------------------------------------------------------------------------
(* metrics.go: wind gradient.                                              *)

RECURSIVE maxUpperBelow1000(_, _, _)
(* Mutant of maxUpperFrom: the 1000 hPa level is left out (< for <=).      *)
maxUpperBelow1000(levels, i, maxUpper) ==
  IF i > Len(levels) THEN maxUpper
  ELSE LET l == levels[i]
       IN  maxUpperBelow1000(levels, i + 1,
             IF /\ l.Pressure >= PressureLevelMinHPa
                /\ l.Pressure < PressureLevelMaxHPa
                /\ l.WindSpeed > maxUpper
             THEN l.WindSpeed ELSE maxUpper)

RECURSIVE maxUpperAnyAltitude(_, _, _)
(* Mutant of maxUpperFrom: no lower pressure bound, so that the 700 hPa    *)
(* level counts.                                                           *)
maxUpperAnyAltitude(levels, i, maxUpper) ==
  IF i > Len(levels) THEN maxUpper
  ELSE LET l == levels[i]
       IN  maxUpperAnyAltitude(levels, i + 1,
             IF /\ l.Pressure <= PressureLevelMaxHPa
                /\ l.WindSpeed > maxUpper
             THEN l.WindSpeed ELSE maxUpper)

RECURSIVE maxUpperFrom(_, _, _)
(* The loop of CalcWindGradient from position i, maxUpper being the        *)
(* running maximum.                                                        *)
maxUpperFrom(levels, i, maxUpper) ==
  IF i > Len(levels) THEN maxUpper
  ELSE LET l == levels[i]
       IN  maxUpperFrom(levels, i + 1,
             IF /\ l.Pressure >= PressureLevelMinHPa
                /\ l.Pressure <= PressureLevelMaxHPa
                /\ l.WindSpeed > maxUpper
             THEN l.WindSpeed ELSE maxUpper)

GradientRating(diff, tc) ==
  IF diff < tc.Gradient.LowThreshold THEN "Low"
  ELSE IF diff < tc.Gradient.HighThreshold THEN "Medium"
  ELSE "High"

CalcWindGradient(surface, levels, tc) ==
  LET maxUpper == maxUpperFrom(levels, 1, surface)
      d0 == maxUpper - surface
      diff == IF d0 < 0 THEN 0 ELSE d0
  IN  [diff |-> diff, rating |-> GradientRating(diff, tc)]

-----------------------------------------------------------------------------
(* metrics.go: thermal rating.                                             *)

RECURSIVE lapseScan(_, _, _)
(* The loop of calcLapseRate from position i; acc holds t925, h925, t700,  *)
(* h700, found925 and found700.                                            *)
lapseScan(levels, i, acc) ==
  IF i > Len(levels) THEN acc
  ELSE LET l == levels[i]
           a1 == IF l.Pressure = LapseRatePressureHigh
                 THEN [acc EXCEPT !.t925 = l.Temperature,
                                  !.h925 = l.GeopotentialHeight,
                                  !.found925 = TRUE]
                 ELSE acc
           a2 == IF l.Pressure = LapseRatePressureLow
                 THEN [a1 EXCEPT !.t700 = l.Temperature,
                                 !.h700 = l.GeopotentialHeight,
                                 !.found700 = TRUE]
                 ELSE a1
       IN  lapseScan(levels, i + 1, a2)

LapseLevels(levels) ==
  lapseScan(levels, 1, [t925 |-> 0, h925 |-> 0, t700 |-> 0, h700 |-> 0,
                        found925 |-> FALSE, found700 |-> FALSE])

(* Mutant of LapseFallback: equal heights are not caught (< for <=).       *)
LapseFallbackStrict(levels) ==
  LET a == LapseLevels(levels)
  IN  ~a.found925 \/ ~a.found700 \/ a.h700 < a.h925

(* Whether calcLapseRate returns DefaultLapseRate without dividing.        *)
LapseFallback(levels) ==
  LET a == LapseLevels(levels)
  IN  ~a.found925 \/ ~a.found700 \/ a.h700 <= a.h925

(* The divisor (h700 - h925) / MetersPerKm as the quotient                 *)
(* <<h700 - h925, MetersPerKm>> of metres.                                 *)
LapseDivisor(levels) ==
  LET a == LapseLevels(levels) IN <<a.h700 - a.h925, MetersPerKm>>

(* calcLapseRate in C/km as a quotient <<n, d>>: (t925 - t700) in tenths   *)
(* of a degree over (h700 - h925) / 1000 km.                               *)
calcLapseRate(levels) ==
  LET a == LapseLevels(levels)
      dv == LapseDivisor(levels)
  IN  IF LapseFallback(levels) THEN DefaultLapseRate
      ELSE <<(a.t925 - a.t700) * dv[2], TempScale * dv[1]>>

(* q > x for a quotient q = <<n, d>> and a limit x in tenths.              *)
(* A zero d is the float64 division by zero: +Inf for n > 0, otherwise     *)
(* -Inf or NaN, neither of which is above anything.                        *)
QuotientAbove(q, x) ==
  IF q[2] > 0 THEN Scale.factor * q[1] > x * q[2]
  ELSE IF q[2] < 0 THEN Scale.factor * q[1] < x * q[2]
  ELSE q[1] > 0

(* Mutant of CAPEPoints: a CAPE equal to a threshold takes the upper       *)
(* bracket (>= for >).                                                     *)
CAPEPointsInclusive(cape, tc) ==
  IF cape >= tc.Thermal.CAPEExtreme THEN 4
  ELSE IF cape >= tc.Thermal.CAPEStrong THEN 3
  ELSE IF cape >= tc.Thermal.CAPEModerate THEN 2
  ELSE IF cape >= tc.Thermal.CAPEWeak THEN 1
  ELSE 0

CAPEPoints(cape, tc) ==
  IF cape > tc.Thermal.CAPEExtreme THEN 4
  ELSE IF cape > tc.Thermal.CAPEStrong THEN 3
  ELSE IF cape > tc.Thermal.CAPEModerate THEN 2
  ELSE IF cape > tc.Thermal.CAPEWeak THEN 1
  ELSE 0

ThermalOfScore(score) ==
  IF score >= 5 THEN "Extreme"
  ELSE IF score >= 4 THEN "Strong"
  ELSE IF score >= 3 THEN "Moderate"
  ELSE IF score >= 1 THEN "Weak"
  ELSE "None"

CalcThermalRating(cape, levels, tc) ==
  LET lapseRate == calcLapseRate(levels)
      s0 == CAPEPoints(cape, tc)
      s1 == IF QuotientAbove(lapseRate, tc.Thermal.LapseRateBonus) THEN s0 + 1 ELSE s0
      s2 == IF QuotientAbove(lapseRate, LapseRateStrongThreshold) THEN s1 + 1 ELSE s1
  IN  ThermalOfScore(s2)

CalcCAPERating(cape, tc) ==
  IF cape >= tc.Thermal.CAPEExtreme THEN "Overdevelopment"
  ELSE IF cape >= tc.Thermal.CAPEStrong THEN "Strong"
  ELSE IF cape >= tc.Thermal.CAPEModerate THEN "Moderate"
  ELSE "Weak"

-----------------------------------------------------------------------------
(* metrics.go: cloudbase, orographic lift.                                 *)

(* temp and dewpoint in tenths of a degree; the result in feet.            *)
CalcCloudbaseFt(temp, dewpoint, tc) ==
  LET s0 == temp - dewpoint
      spread == IF s0 < 0 THEN 0 ELSE s0
      ft == GoInt(spread * Scale.factor * SpreadToCloudbaseMultiplier,
                  TempScale * SpreadToCloudbaseDivisor)
  IN  IF ft < tc.Cloudbase.MinRealisticFt THEN tc.Cloudbase.MinRealisticFt ELSE ft

(* Mutant of CloudbaseStr: a value on the floor is not fog (< for <=).     *)
CloudbaseStrBelowFloor(ft, tc) ==
  IF ft < tc.Cloudbase.MinRealisticFt THEN <<"Fog">> ELSE <<ft, "ft">>

(* "%dft" is modelled as the pair <<ft, "ft">>.                            *)
CloudbaseStr(ft, tc) ==
  IF ft <= tc.Cloudbase.MinRealisticFt THEN <<"Fog">> ELSE <<ft, "ft">>

(* Mutant of CalcOrographicLift: the difference is not folded at 180.      *)
CalcOrographicLiftLinear(windDir, windSpeed, siteAspect, tc) ==
  LET diff == Abs(windDir - siteAspect * AngleScale)
  IN  IF windSpeed < tc.Orographic.MinWindSpeed THEN "None"
      ELSE IF diff <= tc.Orographic.StrongAngle THEN "Strong"
      ELSE IF diff <= tc.Orographic.ModerateAngle THEN "Moderate"
      ELSE IF diff <= tc.Orographic.WeakAngle THEN "Weak"
      ELSE "None"

CalcOrographicLift(windDir, windSpeed, siteAspect, tc) ==
  LET diff == angleDiff(windDir, siteAspect * AngleScale)
  IN  IF windSpeed < tc.Orographic.MinWindSpeed THEN "None"
      ELSE IF diff <= tc.Orographic.StrongAngle THEN "Strong"
      ELSE IF diff <= tc.Orographic.ModerateAngle THEN "Moderate"
      ELSE IF diff <= tc.Orographic.WeakAngle THEN "Weak"
      ELSE "None"

-----------------------------------------------------------------------------
(* metrics.go: flyability score.  Every adjustment is in quarter points.   *)

(* Mutant of WindSpeedAdjustment: the dangerous speed is tested first.     *)
WindSpeedAdjustmentDangerFirst(ws, tc) ==
  IF ws > tc.Wind.DangerousMax THEN tc.Scoring.WindDangerPenalty
  ELSE IF ws >= tc.Wind.IdealMin /\ ws <= tc.Wind.IdealMax
    THEN tc.Scoring.WindIdealBonus
  ELSE IF ws >= tc.Wind.AcceptableMin /\ ws <= tc.Wind.AcceptableMax
    THEN tc.Scoring.WindAcceptableBonus
  ELSE IF ws > tc.Wind.AcceptableMax THEN tc.Scoring.WindHighPenalty
  ELSE 0

WindSpeedAdjustment(ws, tc) ==
  IF ws >= tc.Wind.IdealMin /\ ws <= tc.Wind.IdealMax
    THEN tc.Scoring.WindIdealBonus
  ELSE IF ws >= tc.Wind.AcceptableMin /\ ws <= tc.Wind.AcceptableMax
    THEN tc.Scoring.WindAcceptableBonus
  ELSE IF ws > tc.Wind.DangerousMax THEN tc.Scoring.WindDangerPenalty
  ELSE IF ws > tc.Wind.AcceptableMax THEN tc.Scoring.WindHighPenalty
  ELSE 0

DirectionAdjustment(dir, site, tc) ==
  IF isInWindRange(dir, site.WindMin, site.WindMax) THEN tc.Scoring.DirOnBonus
  ELSE LET distFromRange == distanceFromWindRange(dir, site.WindMin, site.WindMax)
       IN  IF distFromRange > WindDirFarOffAngle THEN tc.Scoring.DirOffPenalty
           ELSE IF distFromRange > WindDirModerateOffAngle THEN -ScoreScale
           ELSE IF distFromRange > WindDirMarginalAngle THEN -(ScoreScale \div 2)
           ELSE 0

(* Mutant of GustAdjustment: the gust factor is computed whatever the wind *)
(* speed, so that with no wind it is gusts/0.                              *)
GustAdjustmentUnguarded(h, tc) ==
  LET gustFactor == <<h.WindGusts, h.WindSpeed>>
  IN  IF QuotientAbove(gustFactor, tc.Wind.DangerousGustFactor)
        THEN tc.Scoring.GustHighPenalty
      ELSE IF QuotientAbove(gustFactor, tc.Wind.MaxGustFactor)
        THEN tc.Scoring.GustMedPenalty
      ELSE 0

GustAdjustment(h, tc) ==
  IF h.WindSpeed > 0
  THEN LET gustFactor == <<h.WindGusts, h.WindSpeed>>
       IN  IF QuotientAbove(gustFactor, tc.Wind.DangerousGustFactor)
             THEN tc.Scoring.GustHighPenalty
           ELSE IF QuotientAbove(gustFactor, tc.Wind.MaxGustFactor)
             THEN tc.Scoring.GustMedPenalty
           ELSE 0
  ELSE 0

(* Mutant of GradientAdjustment: the penalties of the Gradient group are   *)
(* applied.                                                                *)
GradientAdjustmentOfGradientGroup(gradientRating, tc) ==
  IF gradientRating = "High" THEN tc.Gradient.HighPenalty
  ELSE IF gradientRating = "Medium" THEN tc.Gradient.MediumPenalty
  ELSE 0

GradientAdjustment(gradientRating, tc) ==
  IF gradientRating = "High" THEN tc.Scoring.GradientHighPenalty
  ELSE IF gradientRating = "Medium" THEN tc.Scoring.GradientMedPenalty
  ELSE 0

(* Mutant of RainAdjustment: a dry hour takes the rain penalty (>= for >). *)
RainAdjustmentInclusive(h, tc) ==
  IF h.Precipitation >= 0 THEN tc.Scoring.RainPenalty
  ELSE IF h.PrecipitationProbability > PrecipProbHighThreshold
    THEN tc.Scoring.RainProbPenalty
  ELSE IF h.PrecipitationProbability > PrecipProbLowThreshold
    THEN -(ScoreScale \div 4)
  ELSE 0

RainAdjustment(h, tc) ==
  IF h.Precipitation > 0 THEN tc.Scoring.RainPenalty
  ELSE IF h.PrecipitationProbability > PrecipProbHighThreshold
    THEN tc.Scoring.RainProbPenalty
  ELSE IF h.PrecipitationProbability > PrecipProbLowThreshold
    THEN -(ScoreScale \div 4)
  ELSE 0

(* Mutant of ThermalAdjustment: thermal Extreme takes the bonus too.       *)
ThermalAdjustmentWithExtreme(h, thermalRating, tc) ==
  (IF h.CAPE >= tc.Thermal.CAPEModerate /\ h.CAPE < tc.Thermal.CAPEExtreme
   THEN tc.Scoring.CAPEBonus ELSE 0)
  + (IF thermalRating \in {"Strong", "Moderate", "Extreme"}
     THEN tc.Scoring.ThermalStrongBonus ELSE 0)

ThermalAdjustment(h, thermalRating, tc) ==
  (IF h.CAPE >= tc.Thermal.CAPEModerate /\ h.CAPE < tc.Thermal.CAPEExtreme
   THEN tc.Scoring.CAPEBonus ELSE 0)
  + (IF thermalRating = "Strong" \/ thermalRating = "Moderate"
     THEN tc.Scoring.ThermalStrongBonus ELSE 0)

(* The score before rounding and clamping.                                 *)
FlyabilitySum(h, site, gradientRating, thermalRating, tc) ==
  tc.Scoring.BaseScore
  + WindSpeedAdjustment(h.WindSpeed, tc)
  + DirectionAdjustment(h.WindDirection, site, tc)
  + GustAdjustment(h, tc)
  + GradientAdjustment(gradientRating, tc)
  + RainAdjustment(h, tc)
  + ThermalAdjustment(h, thermalRating, tc)

(* Mutant of ClampScore: the lower clamp is missing.                       *)
ClampScoreUpperOnly(result) ==
  IF result > ScoreMax THEN ScoreMax ELSE result

ClampScore(result) ==
  LET r1 == IF result < ScoreMin THEN ScoreMin ELSE result
  IN  IF r1 > ScoreMax THEN ScoreMax ELSE r1

(* Mutant of CalcFlyabilityScore: the rounded sum is returned unclamped.   *)
CalcFlyabilityScoreUnclamped(h, site, gradientRating, thermalRating, tc) ==
  MathRound(FlyabilitySum(h, site, gradientRating, thermalRating, tc), ScoreScale)

CalcFlyabilityScore(h, site, gradientRating, thermalRating, tc) ==
  ClampScore(MathRound(FlyabilitySum(h, site, gradientRating, thermalRating, tc),
                       ScoreScale))

-----------------------------------------------------------------------------
(* metrics.go: cross-country potential, the hourly orchestrator.           *)

(* Mutant of XCPotentialOf: a cloudbase of exactly GoodCloudbaseFt is not  *)
(* good (> for >=).                                                       *)
XCPotentialOfStrictCloudbase(cape, cloudbaseFt, wsN, wsD, thermalRating, tc) ==
  LET c == IF cape >= tc.Thermal.CAPEStrong THEN 2
           ELSE IF cape >= tc.Thermal.CAPEModerate THEN 1 ELSE 0
      b == IF cloudbaseFt > tc.XC.GoodCloudbaseFt THEN 2
           ELSE IF cloudbaseFt >= tc.XC.MinCloudbaseFt THEN 1 ELSE 0
      w == IF wsN >= tc.XC.MinWindSpeed * wsD /\ wsN <= tc.XC.MaxWindSpeed * wsD
           THEN 1 ELSE 0
      t == IF thermalRating = "Strong" THEN 2
           ELSE IF thermalRating = "Moderate" THEN 1
           ELSE IF thermalRating = "Extreme" THEN 1 ELSE 0
      score == c + b + w + t
  IN  IF score >= tc.XC.EpicThreshold THEN "Epic"
      ELSE IF score >= tc.XC.HighThreshold THEN "High"
      ELSE IF score >= tc.XC.MediumThreshold THEN "Medium"
      ELSE "Low"

(* Mutant of XCPotentialOf: thermal Extreme counts 3 points.               *)
XCPotentialOfExtremeFirst(cape, cloudbaseFt, wsN, wsD, thermalRating, tc) ==
  LET c == IF cape >= tc.Thermal.CAPEStrong THEN 2
           ELSE IF cape >= tc.Thermal.CAPEModerate THEN 1 ELSE 0
      b == IF cloudbaseFt >= tc.XC.GoodCloudbaseFt THEN 2
           ELSE IF cloudbaseFt >= tc.XC.MinCloudbaseFt THEN 1 ELSE 0
      w == IF wsN >= tc.XC.MinWindSpeed * wsD /\ wsN <= tc.XC.MaxWindSpeed * wsD
           THEN 1 ELSE 0
      t == IF thermalRating = "Strong" THEN 2
           ELSE IF thermalRating = "Moderate" THEN 1
           ELSE IF thermalRating = "Extreme" THEN 3 ELSE 0
      score == c + b + w + t
  IN  IF score >= tc.XC.EpicThreshold THEN "Epic"
      ELSE IF score >= tc.XC.HighThreshold THEN "High"
      ELSE IF score >= tc.XC.MediumThreshold THEN "Medium"
      ELSE "Low"

(* CalcXCPotential for the float64 wind speed wsN/wsD.                     *)
XCPotentialOf(cape, cloudbaseFt, wsN, wsD, thermalRating, tc) ==
  LET c == IF cape >= tc.Thermal.CAPEStrong THEN 2
           ELSE IF cape >= tc.Thermal.CAPEModerate THEN 1 ELSE 0
      b == IF cloudbaseFt >= tc.XC.GoodCloudbaseFt THEN 2
           ELSE IF cloudbaseFt >= tc.XC.MinCloudbaseFt THEN 1 ELSE 0
      w == IF wsN >= tc.XC.MinWindSpeed * wsD /\ wsN <= tc.XC.MaxWindSpeed * wsD
           THEN 1 ELSE 0
      t == IF thermalRating = "Strong" THEN 2
           ELSE IF thermalRating = "Moderate" THEN 1
           ELSE IF thermalRating = "Extreme" THEN 1 ELSE 0
      score == c + b + w + t
  IN  IF score >= tc.XC.EpicThreshold THEN "Epic"
      ELSE IF score >= tc.XC.HighThreshold THEN "High"
      ELSE IF score >= tc.XC.MediumThreshold THEN "Medium"
      ELSE "Low"

CalcXCPotential(cape, cloudbaseFt, windSpeed, thermalRating, tc) ==
  XCPotentialOf(cape, cloudbaseFt, windSpeed, 1, thermalRating, tc)

(* FreezingLevel, h.FreezingLevelHeight * 3.28084, is kept as the quotient *)
(* <<height * 328084, 100000>>.                                            *)
ComputeHourlyMetrics(h, site, tc) ==
  LET g == CalcWindGradient(h.WindSpeed, h.PressureLevels, tc)
      thermalRating == CalcThermalRating(h.CAPE, h.PressureLevels, tc)
      cloudbase == CalcCloudbaseFt(h.Temperature, h.DewPoint, tc)
  IN  [ Time |-> h.Time,
        WindSpeed |-> h.WindSpeed,
        WindDirection |-> h.WindDirection,
        WindDirStr |-> DegreesToCompass(h.WindDirection),
        WindGusts |-> h.WindGusts,
        WindGradient |-> g.rating,
        WindGradientDiff |-> g.diff,
        ThermalRating |-> thermalRating,
        CAPE |-> h.CAPE,
        CAPERating |-> CalcCAPERating(h.CAPE, tc),
        CloudbaseFt |-> cloudbase,
        CloudCover |-> h.CloudCover,
        Precipitation |-> h.Precipitation,
        PrecipProb |-> h.PrecipitationProbability,
        OrographicLift |->
          CalcOrographicLift(h.WindDirection, h.WindSpeed, site.Aspect, tc),
        FlyabilityScore |->
          CalcFlyabilityScore(h, site, g.rating, thermalRating, tc),
        XCPotential |->
          CalcXCPotential(h.CAPE, cloudbase, h.WindSpeed, thermalRating, tc),
        FreezingLevel |-> <<h.FreezingLevelHeight * 328084, 100000>>,
        IsDay |-> h.IsDay = 1,
        PressureLevels |-> h.PressureLevels ]

-----------------------------------------------------------------------------
(* summarizeDay.                                                           *)

RECURSIVE insertDesc(_, _)
(* The descending sequence sorted with x put in its place.                 *)
insertDesc(sorted, x) ==
  IF sorted = <<>> THEN <<x>>
  ELSE IF x >= Head(sorted) THEN <<x>> \o sorted
  ELSE <<Head(sorted)>> \o insertDesc(Tail(sorted), x)

RECURSIVE sortReverse(_)
(* sort.Sort(sort.Reverse(sort.IntSlice(scores))).                         *)
sortReverse(scores) ==
  IF scores = <<>> THEN <<>>
  ELSE insertDesc(sortReverse(Tail(scores)), Head(scores))

RECURSIVE sumFirst(_, _)
(* scores[0] + ... + scores[topN-1].                                       *)
sumFirst(scores, topN) ==
  IF topN = 0 THEN 0 ELSE scores[topN] + sumFirst(scores, topN - 1)

(* Mutant of topScoreAverage: the plain maximum instead of the top three.  *)
topScoreMaximum(scores) == sortReverse(scores)[1]

(* Mutant of topScoreAverage: the average is truncated, not rounded.       *)
topScoreAverageTruncated(scores) ==
  LET sorted == sortReverse(scores)
      topN == IF Len(sorted) < 3 THEN Len(sorted) ELSE 3
  IN  GoDiv(sumFirst(sorted, topN), topN)

(* dayScore: the rounded integer average of the top three scores.          *)
topScoreAverage(scores) ==
  LET sorted == sortReverse(scores)
      topN == IF Len(sorted) < 3 THEN Len(sorted) ELSE 3
      sum == sumFirst(sorted, topN)
  IN  GoDiv(sum + GoDiv(topN, 2), topN)

(* Mutant of thermalOrder: Strong ranks above Extreme.                     *)
thermalOrderStrongHighest(rating) ==
  CASE rating = "None" -> 0
    [] rating = "Weak" -> 1
    [] rating = "Moderate" -> 2
    [] rating = "Strong" -> 4
    [] rating = "Extreme" -> 3
    [] OTHER -> 0

(* thermalOrder; a rating that is no key of the map reads as 0.            *)
thermalOrder(rating) ==
  CASE rating = "None" -> 0
    [] rating = "Weak" -> 1
    [] rating = "Moderate" -> 2
    [] rating = "Strong" -> 3
    [] rating = "Extreme" -> 4
    [] OTHER -> 0

RECURSIVE dayTotals(_, _, _)
(* The loop of summarizeDay over metrics from position i.                  *)
dayTotals(metrics, i, acc) ==
  IF i > Len(metrics) THEN acc
  ELSE LET m == metrics[i]
       IN  dayTotals(metrics, i + 1,
             [ totalWind |-> acc.totalWind + m.WindSpeed,
               totalDir |-> acc.totalDir + m.WindDirection,
               maxGusts |-> IF m.WindGusts > acc.maxGusts
                            THEN m.WindGusts ELSE acc.maxGusts,
               maxPrecip |-> IF m.PrecipProb > acc.maxPrecip
                             THEN m.PrecipProb ELSE acc.maxPrecip,
               maxCAPE |-> IF m.CAPE > acc.maxCAPE THEN m.CAPE ELSE acc.maxCAPE,
               scores |-> Append(acc.scores, m.FlyabilityScore),
               bestThermal |->
                 IF thermalOrder(m.ThermalRating) > thermalOrder(acc.bestThermal)
                 THEN m.ThermalRating ELSE acc.bestThermal,
               totalCloudbase |-> acc.totalCloudbase + m.CloudbaseFt ])

(* DaySummary{Date: date}: every other field has its zero value.           *)
ZeroDaySummary(date) ==
  [ Date |-> date, AvgWindSpeed |-> <<0, 1>>, AvgWindDir |-> <<0, 1>>,
    WindDirStr |-> "", MaxGusts |-> 0, ThermalRating |-> "",
    MaxPrecipProb |-> 0, AvgCloudbase |-> 0, BestScore |-> 0,
    XCPotential |-> "" ]

(* The float64 averages are kept as quotients <<total, n>>.                *)
summarizeDay(date, metrics, tc) ==
  IF Len(metrics) = 0 THEN ZeroDaySummary(date)
  ELSE
    LET t == dayTotals(metrics, 1,
               [ totalWind |-> 0, totalDir |-> 0, maxGusts |-> 0,
                 maxPrecip |-> 0, maxCAPE |-> 0, scores |-> <<>>,
                 bestThermal |-> "None", totalCloudbase |-> 0 ])
        n == Len(metrics)
    IN  [ Date |-> date,
          AvgWindSpeed |-> <<t.totalWind, n>>,
          AvgWindDir |-> <<t.totalDir, n>>,
          WindDirStr |-> CompassOfQuotient(t.totalDir, n),
          MaxGusts |-> t.maxGusts,
          ThermalRating |-> t.bestThermal,
          MaxPrecipProb |-> t.maxPrecip,
          AvgCloudbase |-> GoDiv(t.totalCloudbase, n),
          BestScore |-> topScoreAverage(t.scores),
          XCPotential |->
            XCPotentialOf(t.maxCAPE, GoDiv(t.totalCloudbase, n),
                          t.totalWind, n, t.bestThermal, tc) ]

-----------------------------------------------------------------------------
(* GenerateForecast.  A time is a day number and an hour of that day; a    *)
(* location is its offset from UTC in hours.                               *)

(* The locations time.LoadLocation knows; any other name is an error.      *)
KnownLocations == [ n \in {"UTC", "Etc/GMT-1"} |-> IF n = "UTC" THEN 0 ELSE 1 ]

(* loc, err := time.LoadLocation(name); if err != nil { loc = time.UTC }   *)
LoadLocation(name) ==
  IF name \in DOMAIN KnownLocations THEN KnownLocations[name] ELSE 0

(* t.In(loc), read as local date and hour.                                 *)
InLocation(t, loc) ==
  LET hours == t.day * 24 + t.hour + loc
  IN  [day |-> hours \div 24, hour |-> hours % 24]

(* lt.Format("2006-01-02"): the local date.                                *)
FormatDate(lt) == lt.day

(* time.ParseInLocation("2006-01-02", dateStr, loc): local midnight.       *)
ParseDate(dateStr) == [day |-> dateStr, hour |-> 0]

(* lt.Format("Mon 15:04"): the weekday (day 0 being a Monday, 1) and the   *)
(* hour; the date itself is not part of the label.                         *)
FormatWindow(lt) == <<(lt.day + 1) % 7, lt.hour>>

RECURSIVE groupByDay(_, _, _, _)
(* The grouping loop from position i: dayOrder lists the dates in order of *)
(* first appearance, dayMap holds the indices of each date.                *)
groupByDay(hourlyData, loc, i, acc) ==
  IF i > Len(hourlyData) THEN acc
  ELSE LET key == FormatDate(InLocation(hourlyData[i].Time, loc))
           exists == key \in DOMAIN acc.dayMap
       IN  groupByDay(hourlyData, loc, i + 1,
             [ dayOrder |-> IF exists THEN acc.dayOrder
                            ELSE Append(acc.dayOrder, key),
               dayMap |-> [ k \in DOMAIN acc.dayMap \cup {key} |->
                            IF k # key THEN acc.dayMap[k]
                            ELSE IF exists THEN Append(acc.dayMap[k], i)
                            ELSE <<i>> ] ])

(* Mutant of betterScore: a later hour of equal score replaces the best.   *)
betterOrEqualScore(score, bestScore) == score >= bestScore

(* if m.FlyabilityScore > bestScore                                        *)
betterScore(score, bestScore) == score > bestScore

(* What the detailed-day loop does with the metrics m of an hour inside    *)
(* the window: append to df.Hours, and update bestScore and bestWindow.    *)
recordHour(acc, m, lt) ==
  LET better == betterScore(m.FlyabilityScore, acc.bestScore)
  IN  [ Hours |-> Append(acc.Hours, m),
        bestScore |-> IF better THEN m.FlyabilityScore ELSE acc.bestScore,
        bestWindow |-> IF better THEN FormatWindow(lt) ELSE acc.bestWindow ]

RECURSIVE detailedHours(_, _, _, _, _, _, _)
(* The hour loop of a detailed day from position j of its indices; acc     *)
(* holds df.Hours, bestScore and bestWindow.                               *)
detailedHours(hourlyData, indices, j, loc, site, tc, acc) ==
  IF j > Len(indices) THEN acc
  ELSE LET h == hourlyData[indices[j]]
           lt == InLocation(h.Time, loc)
       IN  detailedHours(hourlyData, indices, j + 1, loc, site, tc,
             IF lt.hour >= 8 /\ lt.hour <= 18
             THEN recordHour(acc,
                    [ComputeHourlyMetrics(h, site, tc) EXCEPT !.Time = lt], lt)
             ELSE acc)

RECURSIVE extendedHours(_, _, _, _, _, _, _)
(* The hour loop of an extended day; dayMetrics is what it has collected.  *)
extendedHours(hourlyData, indices, j, loc, site, tc, dayMetrics) ==
  IF j > Len(indices) THEN dayMetrics
  ELSE LET h == hourlyData[indices[j]]
           lt == InLocation(h.Time, loc)
       IN  extendedHours(hourlyData, indices, j + 1, loc, site, tc,
             IF lt.hour >= 8 /\ lt.hour <= 18
             THEN Append(dayMetrics,
                         [ComputeHourlyMetrics(h, site, tc) EXCEPT !.Time = lt])
             ELSE dayMetrics)

(* The end of the detailed branch: r is what the hour loop returned.       *)
detailedDay(acc, date, r, tc) ==
  [ acc EXCEPT !.DetailedDays =
                 Append(@, [ Date |-> date, Hours |-> r.Hours,
                             Summary |-> summarizeDay(date, r.Hours, tc) ]),
               !.bestScore = r.bestScore,
               !.bestWindow = r.bestWindow ]

(* Mutant of extendedDay: a summary is added for every later date.         *)
extendedDayAlways(acc, date, dayMetrics, tc) ==
  [ acc EXCEPT !.ExtendedDays = Append(@, summarizeDay(date, dayMetrics, tc)) ]

(* The end of the extended branch: a day with no hour in the window adds   *)
(* no summary.                                                             *)
extendedDay(acc, date, dayMetrics, tc) ==
  IF Len(dayMetrics) > 0
  THEN [ acc EXCEPT !.ExtendedDays = Append(@, summarizeDay(date, dayMetrics, tc)) ]
  ELSE acc

RECURSIVE forecastDays(_, _, _, _, _, _, _, _)
(* The day loop from position dayIdx (counted from 1) of dayOrder; acc     *)
(* holds DetailedDays, ExtendedDays, bestScore and bestWindow.             *)
forecastDays(hourlyData, groups, dayIdx, detailedDays, loc, site, tc, acc) ==
  IF dayIdx > Len(groups.dayOrder) THEN acc
  ELSE
    LET dateStr == groups.dayOrder[dayIdx]
        indices == groups.dayMap[dateStr]
        date == ParseDate(dateStr)
    IN  forecastDays(hourlyData, groups, dayIdx + 1, detailedDays, loc, site, tc,
          IF dayIdx - 1 < detailedDays
          THEN detailedDay(acc, date,
                 detailedHours(hourlyData, indices, 1, loc, site, tc,
                   [ Hours |-> <<>>, bestScore |-> acc.bestScore,
                     bestWindow |-> acc.bestWindow ]),
                 tc)
          ELSE extendedDay(acc, date,
                 extendedHours(hourlyData, indices, 1, loc, site, tc, <<>>), tc))

(* The SiteForecast returned once the day loop has ended with r.           *)
siteForecast(site, opts, loc, now, r) ==
  [ Site |-> site,
    Generated |-> InLocation(now, loc),
    Units |-> opts.Units,
    DetailedDays |-> r.DetailedDays,
    ExtendedDays |-> r.ExtendedDays,
    BestWindow |-> IF r.bestScore >= 3 THEN r.bestWindow ELSE <<>> ]

(* opts.Tuning is <<>> for nil, else <<tc>>; fetch is what FetchWeather    *)
(* returned; now is time.Now().  The empty string is <<>>.                 *)
GenerateForecast(site, opts, fetch, now) ==
  LET loc == LoadLocation(opts.Timezone)
      tc == IF opts.Tuning = <<>> THEN DefaultTuningConfig ELSE opts.Tuning[1]
  IN  IF fetch.err THEN [forecast |-> <<>>, err |-> TRUE]
      ELSE
        LET hourlyData == fetch.hourlyData
            groups == groupByDay(hourlyData, loc, 1,
                                 [dayOrder |-> <<>>, dayMap |-> <<>>])
            detailedDays == IF opts.DetailedDays <= 0 THEN 3
                            ELSE opts.DetailedDays
        IN  [ forecast |->
                << siteForecast(site, opts, loc, now,
                     forecastDays(hourlyData, groups, 1, detailedDays, loc,
                       site, tc,
                       [ DetailedDays |-> <<>>, ExtendedDays |-> <<>>,
                         bestScore |-> 0, bestWindow |-> <<>> ])) >>,
              err |-> FALSE ]

-----------------------------------------------------------------------------
(* Inputs and callers.                                                     *)

MaxLevels == 3

SeqsUpTo(S, n) == UNION { [1..k -> S] : k \in 0..n }

Level(p, w, t, h) ==
  [ Pressure |-> p, WindSpeed |-> w, WindDirection |-> 0,
    Temperature |-> t, GeopotentialHeight |-> h ]

-----------------------------------------------------------------------------
(* CalcWindGradient called on its own.                                     *)

GradientSpeeds == {5 * SpeedScale, 15 * SpeedScale, 25 * SpeedScale, 80 * SpeedScale}
GradientSurfaces == {5 * SpeedScale, 10 * SpeedScale, 30 * SpeedScale}
GradientPressures == {PressureLevelMaxHPa, PressureLevelMinHPa, LapseRatePressureLow}
GradientLevels == { Level(p, w, 0, 0) : p \in GradientPressures, w \in GradientSpeeds }

(* The default thresholds, and a configuration with the two exchanged.     *)
GradientConfigs ==
  { DefaultTuningConfig,
    [DefaultTuningConfig EXCEPT !.Gradient.LowThreshold = 20 * SpeedScale,
                                !.Gradient.HighThreshold = 10 * SpeedScale] }

InitGradient ==
  /\ call \in [ fn : {"CalcWindGradient"}, surface : GradientSurfaces,
                 levels : SeqsUpTo(GradientLevels, MaxLevels), tc : GradientConfigs ]
  /\ ret = <<>>

DoCalcWindGradient ==
  /\ call.fn = "CalcWindGradient"
  /\ ret = <<>>
  /\ ret' = <<CalcWindGradient(call.surface, call.levels, call.tc)>>
  /\ UNCHANGED call

SpecGradient == InitGradient /\ [][DoCalcWindGradient]_vars

(* The wind speeds of the levels of lv with 850 <= pressure <= 1000.       *)
FlyableSpeeds(lv) ==
  { lv[i].WindSpeed : i \in { j \in 1..Len(lv) : lv[j].Pressure >= 850
                                                 /\ lv[j].Pressure <= 1000 } }

SetMax(S) == CHOOSE m \in S : \A x \in S : x <= m

(* C4: CalcWindGradient returns diff = max(0, M - surface), M the largest  *)
(* wind speed among the levels with 850 <= pressure <= 1000 (0 when there  *)
(* is no such level), never negative, and the rating Low for               *)
(* diff < LowThreshold, Medium for LowThreshold <= diff < HighThreshold,   *)
(* High otherwise.                                                         *)
C4_GradientDiffAndRating ==
  Returned =>
    LET S == FlyableSpeeds(call.levels)
        diff == ret[1].diff
        lo == call.tc.Gradient.LowThreshold
        hi == call.tc.Gradient.HighThreshold
    IN  /\ diff >= 0
        /\ diff = IF S = {} \/ SetMax(S) <= call.surface
                  THEN 0 ELSE SetMax(S) - call.surface
        /\ (diff < lo) => ret[1].rating = "Low"
        /\ (lo <= diff /\ diff < hi) => ret[1].rating = "Medium"
        /\ ~(diff < lo) /\ ~(lo <= diff /\ diff < hi) => ret[1].rating = "High"

(* The 1000 hPa level alone carries the gradient, and it is counted.       *)
C4_Witness ==
  /\ Returned
  /\ \E i \in 1..Len(call.levels) :
        /\ call.levels[i].Pressure = 1000
        /\ call.levels[i].WindSpeed = call.surface + ret[1].diff
  /\ \A i \in 1..Len(call.levels) :
        call.levels[i].Pressure # 1000 => call.levels[i].WindSpeed < call.surface
  /\ ret[1].diff = call.tc.Gradient.LowThreshold
  /\ ret[1].rating = "Medium"

(* lv with its 700 hPa levels removed.                                     *)
Without700(lv) == SelectSeq(lv, LAMBDA l : l.Pressure # 700)

(* lv with the wind speed of every 700 hPa level set to w.                 *)
With700Speed(lv, w) ==
  [ i \in 1..Len(lv) |->
      IF lv[i].Pressure = 700 THEN [lv[i] EXCEPT !.WindSpeed = w] ELSE lv[i] ]

(* C5: the result of CalcWindGradient does not depend on the 700 hPa       *)
(* level: changing its wind speed, or removing it, leaves diff and rating  *)
(* as they are.                                                            *)
C5_Ignores700hPa ==
  Returned =>
    /\ CalcWindGradient(call.surface, Without700(call.levels), call.tc) = ret[1]
    /\ \A w \in GradientSpeeds :
         CalcWindGradient(call.surface, With700Speed(call.levels, w), call.tc) = ret[1]

(* A 700 hPa outlier of 80 above flyable levels that give a Low rating.    *)
C5_Witness ==
  /\ Returned
  /\ \E i \in 1..Len(call.levels) :
        call.levels[i].Pressure = 700 /\ call.levels[i].WindSpeed = 80 * SpeedScale
  /\ \E i \in 1..Len(call.levels) : call.levels[i].Pressure = 850
  /\ ret[1].rating = "Low"

-----------------------------------------------------------------------------
(* CalcThermalRating called on its own.                                    *)

(* 925 hPa at 1000 m with 16, 18 or 20 C; 700 hPa at 0 C, below, level     *)
(* with or 2000 m above it (lapse rates 8, 9 and 10 C/km); and 850 hPa.    *)
ThermalLevels ==
  { Level(925, 0, t * TempScale, 1000) : t \in {16, 18, 20} }
  \cup { Level(700, 0, 0, h) : h \in {500, 1000, 3000} }
  \cup { Level(850, 0, 5 * TempScale, 1500) }

ThermalCAPEs == {0, 100, 101, 300, 301, 1000, 1001, 2500, 2501}

(* The default, and a configuration whose lapse-rate bonus starts above    *)
(* the fixed 9.0 threshold.                                                *)
ThermalConfigs ==
  { DefaultTuningConfig,
    [DefaultTuningConfig EXCEPT !.Thermal.LapseRateBonus = 95] }

InitThermal ==
  /\ call \in [ fn : {"CalcThermalRating"}, cape : ThermalCAPEs,
                 levels : SeqsUpTo(ThermalLevels, MaxLevels), tc : ThermalConfigs ]
  /\ ret = <<>>

(* The caller keeps, beside the rating, the lapse rate the call used and   *)
(* the divisor of its division (<<>> when it did not divide).              *)
DoCalcThermalRating ==
  /\ call.fn = "CalcThermalRating"
  /\ ret = <<>>
  /\ ret' = << [ rating |-> CalcThermalRating(call.cape, call.levels, call.tc),
                 lapseRate |-> calcLapseRate(call.levels),
                 divisor |-> IF LapseFallback(call.levels) THEN <<>>
                             ELSE LapseDivisor(call.levels) ] >>
  /\ UNCHANGED call

SpecThermal == InitThermal /\ [][DoCalcThermalRating]_vars

(* The last level of lv with pressure p, as a set (empty when lacking).    *)
LastLevel(lv, p) ==
  LET I == { i \in 1..Len(lv) : lv[i].Pressure = p }
  IN  IF I = {} THEN {} ELSE { lv[SetMax(I)] }

(* C9: CalcThermalRating is the rating of p + b1 + b2: p = 4/3/2/1/0 for   *)
(* CAPE strictly above the extreme/strong/moderate/weak threshold or none, *)
(* b1 = 1 iff the lapse rate is strictly above LapseRateBonus, b2 = 1 iff  *)
(* it is strictly above 9.0; >= 5 Extreme, 4 Strong, 3 Moderate, 1..2      *)
(* Weak, 0 None; with no lapse bonus the rating is never Extreme.          *)
C9_ThermalRatingTable ==
  Returned =>
    LET th == call.tc.Thermal
        lr == ret[1].lapseRate
        p  == CASE call.cape > th.CAPEExtreme -> 4
                [] call.cape <= th.CAPEExtreme /\ call.cape > th.CAPEStrong -> 3
                [] call.cape <= th.CAPEStrong /\ call.cape > th.CAPEModerate -> 2
                [] call.cape <= th.CAPEModerate /\ call.cape > th.CAPEWeak -> 1
                [] OTHER -> 0
        b1 == IF 10 * lr[1] > th.LapseRateBonus * lr[2] THEN 1 ELSE 0
        b2 == IF 10 * lr[1] > 90 * lr[2] THEN 1 ELSE 0
        total == p + b1 + b2
    IN  /\ lr[2] > 0
        /\ ret[1].rating = CASE total >= 5 -> "Extreme"
                              [] total = 4 -> "Strong"
                              [] total = 3 -> "Moderate"
                              [] total \in 1..2 -> "Weak"
                              [] OTHER -> "None"
        /\ (b1 = 0 /\ b2 = 0) => ret[1].rating # "Extreme"

(* A CAPE exactly on the strong threshold, with a lapse rate of 10 C/km.   *)
C9_Witness ==
  /\ Returned
  /\ call.cape = call.tc.Thermal.CAPEStrong
  /\ ret[1].lapseRate[1] = 10 * ret[1].lapseRate[2]
  /\ ret[1].rating = "Strong"

(* C10: without a 925 hPa level, without a 700 hPa level, or with the      *)
(* 700 hPa height not strictly above the 925 hPa height, the lapse rate    *)
(* used is exactly 6.5 and no division takes place; a division that takes  *)
(* place has a strictly positive divisor.                                  *)
C10_LapseRateFallback ==
  Returned =>
    LET l925 == LastLevel(call.levels, 925)
        l700 == LastLevel(call.levels, 700)
        degenerate ==
          \/ l925 = {}
          \/ l700 = {}
          \/ \E a \in l925, b \in l700 :
               b.GeopotentialHeight <= a.GeopotentialHeight
    IN  /\ degenerate => ret[1].lapseRate = <<65, 10>> /\ ret[1].divisor = <<>>
        /\ ret[1].divisor # <<>> =>
             ret[1].divisor[1] > 0 /\ ret[1].divisor[2] > 0

(* Both levels present at the same height: the fallback, and Weak thermals *)
(* from CAPE alone.                                                        *)
C10_Witness ==
  /\ Returned
  /\ \E a \in LastLevel(call.levels, 925), b \in LastLevel(call.levels, 700) :
        b.GeopotentialHeight = a.GeopotentialHeight
  /\ ret[1].lapseRate = <<65, 10>>
  /\ ret[1].divisor = <<>>

-----------------------------------------------------------------------------
(* isInWindRange called on its own.                                        *)

RangeEdges == {0, 10, 30, 180, 330, 350, 360}

(* Directions in [0, 360]: whole degrees and degrees and three quarters.   *)
RangeDirections ==
  { d * AngleScale + f : d \in {0, 9, 10, 30, 31, 180, 329, 330, 350, 359},
                         f \in {0, 3} }
  \cup { 360 * AngleScale }

InitWindRange ==
  /\ call \in [ fn : {"isInWindRange"}, dir : RangeDirections,
                 min : RangeEdges, max : RangeEdges ]
  /\ ret = <<>>

DoIsInWindRange ==
  /\ call.fn = "isInWindRange"
  /\ ret = <<>>
  /\ ret' = <<isInWindRange(call.dir, call.min, call.max)>>
  /\ UNCHANGED call

SpecWindRange == InitWindRange /\ [][DoIsInWindRange]_vars

(* dir truncated to a whole degree, for dir >= 0.                          *)
WholeDegree(dir) == dir \div 4

(* C6 as claimed: for dir in [0, 360], 360 included, isInWindRange is      *)
(* min <= dir <= max when min <= max, and dir >= min or dir <= max when    *)
(* min > max, dir being truncated to a whole degree.                       *)
C6_RangeOfTruncatedDir ==
  Returned =>
    LET d == WholeDegree(call.dir)
    IN  ret[1] = IF call.min <= call.max
                 THEN call.min <= d /\ d <= call.max
                 ELSE d >= call.min \/ d <= call.max

(* C6 as amended: the same with the truncated direction reduced modulo     *)
(* 360, a direction of 360 counting as 0.                                  *)
C6_RangeOfDirMod360 ==
  Returned =>
    LET d == WholeDegree(call.dir) % 360
    IN  ret[1] = IF call.min <= call.max
                 THEN call.min <= d /\ d <= call.max
                 ELSE d >= call.min \/ d <= call.max

(* A direction of 360 against the range 0..30: in range, as 0 is.          *)
C6_Witness ==
  /\ Returned
  /\ call.dir = 360 * AngleScale
  /\ call.min = 0
  /\ call.max = 30
  /\ ret[1] = TRUE

-----------------------------------------------------------------------------
(* angleDiff called on its own.                                            *)

MaxTurns == 2

(* Angles from -MaxTurns to MaxTurns full circles in steps of 45 degrees.  *)
AngleInputs == { k * 45 * AngleScale : k \in (-8 * MaxTurns)..(8 * MaxTurns) }

InitAngleDiff ==
  /\ call \in [ fn : {"angleDiff"}, a : AngleInputs, b : AngleInputs ]
  /\ ret = <<>>

DoAngleDiff ==
  /\ call.fn = "angleDiff"
  /\ ret = <<>>
  /\ ret' = <<angleDiff(call.a, call.b)>>
  /\ UNCHANGED call

SpecAngleDiff == InitAngleDiff /\ [][DoAngleDiff]_vars

(* C7: for every pair of angles, whatever their range, angleDiff(a, b)     *)
(* lies in [0, 180].                                                       *)
C7_AngleDiffWithin180 ==
  Returned => ret[1] >= 0 /\ ret[1] <= 180 * AngleScale

-----------------------------------------------------------------------------
(* DegreesToCompass called on its own.                                     *)

(* Multiples of 11.25 degrees, and a quarter degree to either side, over   *)
(* MaxTurns circles in both directions.                                    *)
CompassInputs ==
  { j * (DegreesPerCompassPoint \div 2) + e :
      j \in (-32 * MaxTurns)..(32 * MaxTurns), e \in {-1, 0, 1} }

InitCompass ==
  /\ call \in [ fn : {"DegreesToCompass"}, deg : CompassInputs ]
  /\ ret = <<>>

DoDegreesToCompass ==
  /\ call.fn = "DegreesToCompass"
  /\ ret = <<>>
  /\ ret' = <<DegreesToCompass(call.deg)>>
  /\ UNCHANGED call

SpecCompass == InitCompass /\ [][DoDegreesToCompass]_vars

(* C8: DegreesToCompass(d) = DegreesToCompass(d + 360k) for every d,       *)
(* sector boundaries included, and every integer k, the result being one   *)
(* of the 16 compass labels.                                               *)
C8_CompassPeriodic ==
  Returned =>
    /\ \E i \in 1..16 : ret[1] = CompassPoints[i]
    /\ \A k \in (-MaxTurns)..MaxTurns :
         DegreesToCompass(call.deg + k * 360 * AngleScale) = ret[1]

-----------------------------------------------------------------------------
(* CalcFlyabilityScore called on its own.                                  *)

(* An HourlyData with the fields the scorer reads set, the others zero.    *)
ScoredHour(ws, dir, gusts, precip, prob, cape) ==
  [ Time |-> [day |-> 0, hour |-> 12],
    Temperature |-> 0, DewPoint |-> 0,
    WindSpeed |-> ws, WindDirection |-> dir, WindGusts |-> gusts,
    CloudCover |-> 0, CAPE |-> cape,
    Precipitation |-> precip, PrecipitationProbability |-> prob,
    FreezingLevelHeight |-> 0, IsDay |-> 1, PressureLevels |-> <<>> ]

NewSite(min, max, aspect) == [ WindMin |-> min, WindMax |-> max, Aspect |-> aspect ]

ScoreSpeeds == { v * SpeedScale : v \in {0, 4, 5, 8, 18, 22, 25, 26} }
(* Gusts as a multiple (in tenths) of the wind speed; with no wind, the    *)
(* multiple itself.                                                        *)
ScoreGustFactors == {10, 15, 20, 30}
GustsOf(ws, f) == IF ws = 0 THEN f ELSE (ws * f) \div Scale.factor
ScoreDirections == { d * AngleScale : d \in {80, 225, 281, 306, 360} }
ScoreSites == { NewSite(210, 260, 235), NewSite(330, 30, 0) }
ScorePrecipitations == {0, 5}
ScorePrecipProbs == {0, 30, 31, 51}
ScoreCAPEs == {0, 300, 2500}
GradientRatings == {"Low", "Medium", "High"}
ThermalRatings == {"None", "Weak", "Moderate", "Strong", "Extreme"}

(* A configuration with base score b and every scoring bonus and penalty   *)
(* of the default multiplied by k.                                         *)
ScaledScoring(b, k) ==
  LET s == DefaultTuningConfig.Scoring
  IN  [ DefaultTuningConfig EXCEPT !.Scoring =
          [ f \in DOMAIN s |-> IF f = "BaseScore" THEN b ELSE k * s[f] ] ]

(* Wind bands that overlap: the ideal band reaches above DangerousMax and  *)
(* above AcceptableMax.                                                    *)
OverlappingBands ==
  [ DefaultTuningConfig EXCEPT !.Wind.IdealMax = 26 * SpeedScale,
                               !.Wind.AcceptableMax = 20 * SpeedScale,
                               !.Wind.DangerousMax = 22 * SpeedScale ]

(* The default; all penalties tripled on a base of -10 points; all bonuses *)
(* tripled on a base of +15 points; nothing but a base of 0; overlapping   *)
(* wind bands.                                                             *)
ScoreConfigs ==
  { DefaultTuningConfig,
    ScaledScoring(-10 * ScoreScale, 3),
    ScaledScoring(15 * ScoreScale, 3),
    ScaledScoring(0, 0),
    OverlappingBands }

InitFlyability ==
  \E ws \in ScoreSpeeds, f \in ScoreGustFactors, dir \in ScoreDirections,
     precip \in ScorePrecipitations, prob \in ScorePrecipProbs,
     cape \in ScoreCAPEs, site \in ScoreSites, g \in GradientRatings,
     t \in ThermalRatings, tc \in ScoreConfigs :
    /\ call = [ fn |-> "CalcFlyabilityScore",
                h |-> ScoredHour(ws, dir, GustsOf(ws, f), precip, prob, cape),
                site |-> site, gradientRating |-> g, thermalRating |-> t,
                tc |-> tc ]
    /\ ret = <<>>

DoCalcFlyabilityScore ==
  /\ call.fn = "CalcFlyabilityScore"
  /\ ret = <<>>
  /\ ret' = <<CalcFlyabilityScore(call.h, call.site, call.gradientRating,
                                  call.thermalRating, call.tc)>>
  /\ UNCHANGED call

SpecFlyability == InitFlyability /\ [][DoCalcFlyabilityScore]_vars

(* C1: CalcFlyabilityScore returns an integer in 1..5, also when the       *)
(* bonuses and penalties carry the sum far below 1 or far above 5.         *)
C1_ScoreWithin1To5 ==
  Returned => ret[1] \in 1..5

(* A sum below -20 points that saturates at 1.                             *)
C1_Witness ==
  /\ Returned
  /\ FlyabilitySum(call.h, call.site, call.gradientRating,
                   call.thermalRating, call.tc) < -20 * ScoreScale
  /\ ret[1] = 1

-----------------------------------------------------------------------------
(* summarizeDay called on its own.                                         *)

MaxDayHours == 5

(* An HourlyMetrics with the fields summarizeDay reads.                    *)
HourMetrics(score, ws, dir, gusts, prob, cape, thermal, cloudbase) ==
  [ Time |-> [day |-> 0, hour |-> 12],
    WindSpeed |-> ws, WindDirection |-> dir, WindDirStr |-> DegreesToCompass(dir),
    WindGusts |-> gusts, WindGradient |-> "Low", WindGradientDiff |-> 0,
    ThermalRating |-> thermal, CAPE |-> cape,
    CAPERating |-> CalcCAPERating(cape, DefaultTuningConfig),
    CloudbaseFt |-> cloudbase, CloudCover |-> 0, Precipitation |-> 0,
    PrecipProb |-> prob, OrographicLift |-> "None", FlyabilityScore |-> score,
    XCPotential |-> "Low", FreezingLevel |-> <<0, 100000>>, IsDay |-> TRUE,
    PressureLevels |-> <<>> ]

(* One hour for each score, and a second hour of score 4.                  *)
DayHours ==
  { HourMetrics(1, 26 * SpeedScale, 350 * AngleScale, 40 * SpeedScale, 80, 0,
                "None", 200),
    HourMetrics(2, 4 * SpeedScale, 10 * AngleScale, 6 * SpeedScale, 60, 150,
                "Weak", 1500),
    HourMetrics(3, 15 * SpeedScale, 225 * AngleScale, 20 * SpeedScale, 31, 400,
                "Moderate", 3100),
    HourMetrics(4, 12 * SpeedScale, 240 * AngleScale, 15 * SpeedScale, 0, 1200,
                "Strong", 4200),
    HourMetrics(4, 9 * SpeedScale, 10 * AngleScale, 9 * SpeedScale, 20, 2600,
                "Extreme", 3500),
    HourMetrics(5, 10 * SpeedScale, 250 * AngleScale, 12 * SpeedScale, 10, 900,
                "Moderate", 5000) }

InitDay ==
  /\ call \in [ fn : {"summarizeDay"}, date : {[day |-> 0, hour |-> 0]},
                 metrics : SeqsUpTo(DayHours, MaxDayHours),
                 tc : {DefaultTuningConfig} ]
  /\ ret = <<>>

DoSummarizeDay ==
  /\ call.fn = "summarizeDay"
  /\ ret = <<>>
  /\ ret' = <<summarizeDay(call.date, call.metrics, call.tc)>>
  /\ UNCHANGED call

SpecDay == InitDay /\ [][DoSummarizeDay]_vars

ScoresOf(metrics) == [ i \in 1..Len(metrics) |-> metrics[i].FlyabilityScore ]

RECURSIVE SumOver(_, _)
(* The sum of f[i] over the finite set I of indices.                       *)
SumOver(f, I) ==
  IF I = {} THEN 0
  ELSE LET i == CHOOSE j \in I : TRUE IN f[i] + SumOver(f, I \ {i})

(* The largest sum of k of the scores: the sum of the k highest.           *)
TopSum(scores, k) ==
  SetMax({ SumOver(scores, I) :
             I \in { J \in SUBSET (1..Len(scores)) : Cardinality(J) = k } })

(* The sequence with its first two elements exchanged; rotated by one.     *)
SwapFirstTwo(q) ==
  IF Len(q) < 2 THEN q ELSE <<q[2], q[1]>> \o SubSeq(q, 3, Len(q))
Rotate(q) == IF q = <<>> THEN q ELSE Append(Tail(q), Head(q))

(* C2: for a non-empty day the day score is the mean of the k = min(3, n)  *)
(* highest hourly scores rounded to the nearest integer, ties up:          *)
(* floor((sum + floor(k/2)) / k); it does not depend on the order of the   *)
(* hours (exchanging two hours or rotating the list changes nothing), and  *)
(* the scores 5,4,4,3,2 give 4, not the maximum 5.                         *)
C2_DayScoreTopThreeMean ==
  (Returned /\ Len(call.metrics) > 0) =>
    LET scores == ScoresOf(call.metrics)
        n == Len(scores)
        k == IF n < 3 THEN n ELSE 3
        sum == TopSum(scores, k)
        day == ret[1].BestScore
    IN  /\ day = (sum + (k \div 2)) \div k
        /\ 2 * k * day - k <= 2 * sum
        /\ 2 * sum < 2 * k * day + k
        /\ summarizeDay(call.date, SwapFirstTwo(call.metrics), call.tc).BestScore = day
        /\ summarizeDay(call.date, Rotate(call.metrics), call.tc).BestScore = day
        /\ scores = <<5, 4, 4, 3, 2>> => day = 4

(* The day of the example: hourly scores 5,4,4,3,2 and day score 4.        *)
C2_Witness ==
  /\ Returned
  /\ ScoresOf(call.metrics) = <<5, 4, 4, 3, 2>>
  /\ ret[1].BestScore = 4

-----------------------------------------------------------------------------
(* GenerateForecast called on what FetchWeather returned.                  *)

MaxDays == 2
MaxFetchedHours == 2

(* The hours of the day (UTC) at which an observation may have been        *)
(* fetched: with the offsets 0 and 1 they fall on both sides of 08:00,     *)
(* of 18:00 and of midnight.                                               *)
FetchHours == {7, 12, 18, 23}
FetchTimes == { [day |-> d, hour |-> hh] : d \in 0..(MaxDays - 1), hh \in FetchHours }

Instant(t) == t.day * 24 + t.hour

RECURSIVE Chronological(_)
(* The times of the set S as a sequence in chronological order, the order  *)
(* of the "time" array FetchWeather parses.                                *)
Chronological(S) ==
  IF S = {} THEN <<>>
  ELSE LET first == CHOOSE t \in S : \A u \in S : Instant(t) <= Instant(u)
       IN  <<first>> \o Chronological(S \ {first})

ForecastSite == NewSite(210, 260, 235)

(* Three observations, of flyability 5, 3 and 2 at ForecastSite under the  *)
(* default configuration.                                                  *)
GoodHour ==
  [ ScoredHour(12 * SpeedScale, 225 * AngleScale, 15 * SpeedScale, 0, 0, 0)
      EXCEPT !.Temperature = 15 * TempScale, !.DewPoint = 5 * TempScale,
             !.PressureLevels =
               << Level(950, 14 * SpeedScale, 12 * TempScale, 500),
                  Level(925, 15 * SpeedScale, 10 * TempScale, 750),
                  Level(700, 40 * SpeedScale, -5 * TempScale, 3000) >> ]
FairHour ==
  [ ScoredHour(20 * SpeedScale, 281 * AngleScale, 24 * SpeedScale, 0, 20, 400)
      EXCEPT !.Temperature = 12 * TempScale, !.DewPoint = 10 * TempScale ]
PoorHour ==
  [ ScoredHour(26 * SpeedScale, 225 * AngleScale, 30 * SpeedScale, 0, 0, 50)
      EXCEPT !.Temperature = 8 * TempScale, !.DewPoint = 8 * TempScale ]
FetchedObservations == {GoodHour, FairHour, PoorHour}

ForecastOptions(detailedDays, timezone) ==
  [ Units |-> "mph", DetailedDays |-> detailedDays, Timezone |-> timezone,
    Model |-> "", OutputFormat |-> "text", Tuning |-> <<>> ]

(* What FetchWeather returns for the times S with the observations obs.    *)
Fetched(S, obs) ==
  LET times == Chronological(S)
  IN  [ err |-> FALSE,
        hourlyData |-> [ i \in 1..Len(times) |-> [obs[i] EXCEPT !.Time = times[i]] ] ]

ForecastCall(opts, fetch) ==
  [ fn |-> "GenerateForecast", site |-> ForecastSite, opts |-> opts,
    fetch |-> fetch, now |-> [day |-> 0, hour |-> 6] ]

Init ==
  /\ ret = <<>>
  /\ \/ \E S \in { T \in SUBSET FetchTimes : Cardinality(T) <= MaxFetchedHours } :
          \E obs \in [1..Cardinality(S) -> FetchedObservations],
             d \in 0..MaxDays, z \in {"UTC", "Etc/GMT-1", "Nowhere"} :
            call = ForecastCall(ForecastOptions(d, z), Fetched(S, obs))
     \/ call = ForecastCall(ForecastOptions(0, "UTC"),
                            [err |-> TRUE, hourlyData |-> <<>>])

DoGenerateForecast ==
  /\ call.fn = "GenerateForecast"
  /\ ret = <<>>
  /\ ret' = <<GenerateForecast(call.site, call.opts, call.fetch, call.now)>>
  /\ UNCHANGED call

Next == DoGenerateForecast

Spec == Init /\ [][Next]_vars

(* What the claims about GenerateForecast speak of, read off the call.     *)
CallOffset == IF call.opts.Timezone = "Etc/GMT-1" THEN 1 ELSE 0
CallLocalDay(i) ==
  (Instant(call.fetch.hourlyData[i].Time) + CallOffset) \div 24
CallLocalHour(i) ==
  (Instant(call.fetch.hourlyData[i].Time) + CallOffset) % 24
CallDates == { CallLocalDay(i) : i \in 1..Len(call.fetch.hourlyData) }
CallD == IF call.opts.DetailedDays <= 0 THEN 3 ELSE call.opts.DetailedDays
(* The first D dates: those with fewer than D dates before them.           *)
CallDetailedDates ==
  { d \in CallDates : Cardinality({ e \in CallDates : e < d }) < CallD }
(* The hours 08:00..18:00 of the detailed days.                            *)
CallDetailedWindow ==
  { i \in 1..Len(call.fetch.hourlyData) :
      /\ CallLocalDay(i) \in CallDetailedDates
      /\ CallLocalHour(i) >= 8
      /\ CallLocalHour(i) <= 18 }
CallScore(i) ==
  ComputeHourlyMetrics(call.fetch.hourlyData[i], call.site,
                       DefaultTuningConfig).FlyabilityScore

(* C3: BestWindow is non-empty iff some hour 08:00..18:00 of the first D   *)
(* days scores >= 3; it then labels (weekday and hour) the earliest of the *)
(* hours that reach the maximum score of those days; hours of extended     *)
(* days have no part in it.                                                *)
C3_BestWindow ==
  (Returned /\ ~ret[1].err) =>
    LET W == CallDetailedWindow
        score == [ i \in W |-> CallScore(i) ]
        best == ret[1].forecast[1].BestWindow
    IN  /\ (best # <<>>) <=> (\E i \in W : score[i] >= 3)
        /\ best # <<>> =>
             LET top == { i \in W : \A j \in W : score[j] <= score[i] }
                 first == CHOOSE i \in top : \A j \in top : i <= j
             IN  best = <<(CallLocalDay(first) + 1) % 7, CallLocalHour(first)>>

(* The only detailed day has an hour of score 3, the extended day after it *)
(* an hour of score 5: the window is the hour of the detailed day.         *)
C3_Witness ==
  /\ Returned
  /\ ~ret[1].err
  /\ call.opts.DetailedDays = 1
  /\ Len(call.fetch.hourlyData) = 2
  /\ CallDetailedWindow = {1}
  /\ CallScore(1) = 3
  /\ CallScore(2) = 5
  /\ CallLocalHour(2) \in 8..18
  /\ ret[1].forecast[1].BestWindow = <<(CallLocalDay(1) + 1) % 7, CallLocalHour(1)>>
  /\ Len(ret[1].forecast[1].ExtendedDays) = 1

-----------------------------------------------------------------------------
(* CalcCloudbaseFt and CloudbaseStr called on their own.                   *)

(* Temperatures and dew points in tenths of a degree: spreads of 0.4, 0.5  *)
(* and 0.6 degrees give 160, 200 and 240 ft, around the default floor.     *)
CloudTemperatures == {-50, 0, 4, 5, 6, 100, 125, 200}

(* Floors: negative, zero, the default and one above it.                   *)
CloudFloors == {-100, 0, DefaultTuningConfig.Cloudbase.MinRealisticFt, 1000}

CloudConfigs ==
  { [DefaultTuningConfig EXCEPT !.Cloudbase.MinRealisticFt = f] : f \in CloudFloors }

CloudFeet == {-200, -100, -99, 0, 1, 199, 200, 201, 999, 1000, 1001, 4000}

InitCloudbase ==
  /\ ret = <<>>
  /\ \/ \E t \in CloudTemperatures, d \in CloudTemperatures, tc \in CloudConfigs :
          call = [fn |-> "CalcCloudbaseFt", temp |-> t, dewpoint |-> d, tc |-> tc]
     \/ \E ft \in CloudFeet, tc \in CloudConfigs :
          call = [fn |-> "CloudbaseStr", ft |-> ft, tc |-> tc]

DoCalcCloudbaseFt ==
  /\ call.fn = "CalcCloudbaseFt"
  /\ ret = <<>>
  /\ ret' = <<CalcCloudbaseFt(call.temp, call.dewpoint, call.tc)>>
  /\ UNCHANGED call

DoCloudbaseStr ==
  /\ call.fn = "CloudbaseStr"
  /\ ret = <<>>
  /\ ret' = <<CloudbaseStr(call.ft, call.tc)>>
  /\ UNCHANGED call

NextCloudbase == DoCalcCloudbaseFt \/ DoCloudbaseStr

SpecCloudbase == InitCloudbase /\ [][NextCloudbase]_vars

CloudbaseLabelled ==
  (Returned /\ call.fn = "CloudbaseStr") =>
     IF call.ft <= call.tc.Cloudbase.MinRealisticFt
     THEN ret[1] = <<"Fog">>
     ELSE ret[1] = <<call.ft, "ft">>

(* C11 as stated: for every temperature, dew point and configuration       *)
(* CalcCloudbaseFt returns at least MinRealisticFt, exactly MinRealisticFt *)
(* when temperature <= dew point; CloudbaseStr is "Fog" at or below the    *)
(* floor and "<value>ft" above it.                                         *)
C11_CloudbaseFloorAnyConfig ==
  /\ (Returned /\ call.fn = "CalcCloudbaseFt") =>
        /\ ret[1] >= call.tc.Cloudbase.MinRealisticFt
        /\ (call.temp <= call.dewpoint =>
              ret[1] = call.tc.Cloudbase.MinRealisticFt)
  /\ CloudbaseLabelled

(* C11 amended: the value is at least MinRealisticFt for every             *)
(* configuration; with temperature <= dew point it is the larger of 0 and  *)
(* MinRealisticFt, hence exactly MinRealisticFt when the floor is not      *)
(* negative; CloudbaseStr is "Fog" at or below the floor and "<value>ft"   *)
(* above it.                                                               *)
C11_CloudbaseFloor ==
  /\ (Returned /\ call.fn = "CalcCloudbaseFt") =>
        /\ ret[1] >= call.tc.Cloudbase.MinRealisticFt
        /\ (call.temp <= call.dewpoint =>
              ret[1] = IF call.tc.Cloudbase.MinRealisticFt >= 0
                       THEN call.tc.Cloudbase.MinRealisticFt ELSE 0)
  /\ CloudbaseLabelled

(* temp = dew = 10 under the default floor: 200 ft, shown as fog by a      *)
(* second call.                                                            *)
C11_Witness ==
  /\ Returned
  /\ call.fn = "CalcCloudbaseFt"
  /\ call.temp = 100 /\ call.dewpoint = 100
  /\ call.tc = DefaultTuningConfig
  /\ ret[1] = 200
  /\ CloudbaseStr(ret[1], call.tc) = <<"Fog">>

-----------------------------------------------------------------------------
(* CalcOrographicLift called on its own.                                   *)

(* Wind directions in [0, 360], in quarter degrees: on, just above and     *)
(* away from the angle thresholds, on both sides of north.                 *)
OrographicDirections ==
  { d * AngleScale : d \in {0, 10, 15, 16, 25, 30, 40, 45, 55, 180, 190,
                            315, 325, 335, 345, 350, 360} }
  \cup { 15 * AngleScale + 1, 30 * AngleScale + 1, 45 * AngleScale + 1,
         345 * AngleScale - 1 }

OrographicAspects == {0, 10, 180, 350, 360}

OrographicSpeeds ==
  { 0, 5 * SpeedScale, 8 * SpeedScale - 1, 8 * SpeedScale, 8 * SpeedScale + 1,
    20 * SpeedScale }

(* The default brackets, and brackets of which two coincide.               *)
OrographicConfigs ==
  { DefaultTuningConfig,
    [DefaultTuningConfig EXCEPT
       !.Orographic = [ MinWindSpeed |-> 5 * SpeedScale,
                        StrongAngle |-> 20 * AngleScale,
                        ModerateAngle |-> 20 * AngleScale,
                        WeakAngle |-> 170 * AngleScale ]] }

InitOrographic ==
  /\ ret = <<>>
  /\ \E dir \in OrographicDirections, ws \in OrographicSpeeds,
        aspect \in OrographicAspects, tc \in OrographicConfigs :
       call = [ fn |-> "CalcOrographicLift", windDir |-> dir, windSpeed |-> ws,
                siteAspect |-> aspect, tc |-> tc ]

DoCalcOrographicLift ==
  /\ call.fn = "CalcOrographicLift"
  /\ ret = <<>>
  /\ ret' = <<CalcOrographicLift(call.windDir, call.windSpeed, call.siteAspect,
                                 call.tc)>>
  /\ UNCHANGED call

SpecOrographic == InitOrographic /\ [][DoCalcOrographicLift]_vars

(* The circular difference of two angles (quarter degrees): the shorter    *)
(* of the two arcs between them.                                           *)
CircularDifference(a, b) ==
  LET arc == (a - b) % DegreesFullCircle
  IN  IF arc <= DegreesFullCircle - arc THEN arc ELSE DegreesFullCircle - arc

(* C12: None below MinWindSpeed whatever the angle; otherwise, with d the  *)
(* circular difference of wind direction and aspect, Strong when           *)
(* d <= StrongAngle, Moderate when StrongAngle < d <= ModerateAngle, Weak  *)
(* when ModerateAngle < d <= WeakAngle, None when d > WeakAngle.           *)
C12_OrographicLift ==
  Returned =>
    LET d == CircularDifference(call.windDir, call.siteAspect * AngleScale)
        o == call.tc.Orographic
    IN  IF call.windSpeed < o.MinWindSpeed THEN ret[1] = "None"
        ELSE /\ d <= o.StrongAngle => ret[1] = "Strong"
             /\ (o.StrongAngle < d /\ d <= o.ModerateAngle) => ret[1] = "Moderate"
             /\ (o.ModerateAngle < d /\ d <= o.WeakAngle) => ret[1] = "Weak"
             /\ d > o.WeakAngle => ret[1] = "None"

(* Wind from 350 at 8 mph on a slope facing 10: d = 20, Moderate.          *)
C12_Witness ==
  /\ Returned
  /\ call.tc = DefaultTuningConfig
  /\ call.windDir = 350 * AngleScale
  /\ call.siteAspect = 10
  /\ call.windSpeed = call.tc.Orographic.MinWindSpeed
  /\ ret[1] = "Moderate"

-----------------------------------------------------------------------------
(* Further properties of CalcFlyabilityScore, under SpecFlyability.        *)

(* The score of the call when no gust penalty is applied.                  *)
ScoreWithoutGusts ==
  ClampScore(MathRound(
    call.tc.Scoring.BaseScore
    + WindSpeedAdjustment(call.h.WindSpeed, call.tc)
    + DirectionAdjustment(call.h.WindDirection, call.site, call.tc)
    + GradientAdjustment(call.gradientRating, call.tc)
    + RainAdjustment(call.h, call.tc)
    + ThermalAdjustment(call.h, call.thermalRating, call.tc),
    ScoreScale))

(* C13: with wind speed 0 the gust factor is not evaluated: neither the    *)
(* high nor the medium gust penalty enters the score, whatever the gusts.  *)
C13_NoGustFactorWithoutWind ==
  (Returned /\ call.h.WindSpeed = 0) => ret[1] = ScoreWithoutGusts

(* No wind, gusts of 3 mph, otherwise fair: the score is 4, where the high *)
(* gust penalty would have made it 3.                                      *)
C13_Witness ==
  /\ Returned
  /\ call.tc = DefaultTuningConfig
  /\ call.h.WindSpeed = 0
  /\ call.h.WindGusts = 30
  /\ call.h.Precipitation = 0 /\ call.h.PrecipitationProbability = 0
  /\ call.gradientRating = "Low"
  /\ isInWindRange(call.h.WindDirection, call.site.WindMin, call.site.WindMax)
  /\ ret[1] = 4
  /\ ClampScore(MathRound(FlyabilitySum(call.h, call.site, call.gradientRating,
                                        call.thermalRating, call.tc)
                          + call.tc.Scoring.GustHighPenalty, ScoreScale)) = 3

(* gusts/speed > limit (limit in tenths), for a wind speed above 0.        *)
CallGustFactorAbove(limit) ==
  QuotientAbove(<<call.h.WindGusts, call.h.WindSpeed>>, limit)

(* C14: under the default configuration an hour with wind speed in         *)
(* [IdealMin, IdealMax], direction inside the site range, gust factor not  *)
(* above MaxGustFactor, no precipitation with probability <= 30 and Low    *)
(* gradient scores 4 or 5, whatever its CAPE and thermal rating.           *)
C14_PerfectHour ==
  ( /\ Returned
    /\ call.tc = DefaultTuningConfig
    /\ call.h.WindSpeed >= call.tc.Wind.IdealMin
    /\ call.h.WindSpeed <= call.tc.Wind.IdealMax
    /\ isInWindRange(call.h.WindDirection, call.site.WindMin, call.site.WindMax)
    /\ ~CallGustFactorAbove(call.tc.Wind.MaxGustFactor)
    /\ call.h.Precipitation = 0
    /\ call.h.PrecipitationProbability <= PrecipProbLowThreshold
    /\ call.gradientRating = "Low" )
  => ret[1] \in {4, 5}

(* The hour on the edge of every condition: wind at IdealMin, gust factor  *)
(* equal to MaxGustFactor, precipitation probability 30, no thermal.       *)
C14_Witness ==
  /\ Returned
  /\ call.tc = DefaultTuningConfig
  /\ call.h.WindSpeed = call.tc.Wind.IdealMin
  /\ isInWindRange(call.h.WindDirection, call.site.WindMin, call.site.WindMax)
  /\ call.h.WindGusts * Scale.factor = call.tc.Wind.MaxGustFactor * call.h.WindSpeed
  /\ call.h.Precipitation = 0
  /\ call.h.PrecipitationProbability = PrecipProbLowThreshold
  /\ call.gradientRating = "Low"
  /\ call.h.CAPE = 0
  /\ call.thermalRating = "None"
  /\ ret[1] = 5

(* C15: under the default configuration an hour with wind speed above      *)
(* DangerousMax, precipitation > 0, gust factor above MaxGustFactor and    *)
(* High gradient scores exactly 1, whatever the direction, the site range, *)
(* CAPE and the thermal rating.                                            *)
C15_WorstHour ==
  ( /\ Returned
    /\ call.tc = DefaultTuningConfig
    /\ call.h.WindSpeed > call.tc.Wind.DangerousMax
    /\ call.h.Precipitation > 0
    /\ CallGustFactorAbove(call.tc.Wind.MaxGustFactor)
    /\ call.gradientRating = "High" )
  => ret[1] = 1

(* The mildest such hour: on direction, with the CAPE and thermal bonuses  *)
(* and only the medium gust penalty; its sum is -1.5 points.               *)
C15_Witness ==
  /\ Returned
  /\ call.tc = DefaultTuningConfig
  /\ call.h.WindSpeed > call.tc.Wind.DangerousMax
  /\ call.h.Precipitation > 0
  /\ CallGustFactorAbove(call.tc.Wind.MaxGustFactor)
  /\ ~CallGustFactorAbove(call.tc.Wind.DangerousGustFactor)
  /\ call.gradientRating = "High"
  /\ isInWindRange(call.h.WindDirection, call.site.WindMin, call.site.WindMax)
  /\ call.h.CAPE = 300
  /\ call.thermalRating = "Strong"
  /\ FlyabilitySum(call.h, call.site, call.gradientRating, call.thermalRating,
                   call.tc) * 2 = -3 * ScoreScale
  /\ ret[1] = 1

-----------------------------------------------------------------------------
(* CalcXCPotential called on its own.                                      *)

XCCAPEs == {0, 299, 300, 999, 1000, 3000}
XCCloudbases == {200, 2999, 3000, 3999, 4000, 6000}
XCSpeeds ==
  { 0, 8 * SpeedScale - 1, 8 * SpeedScale, 15 * SpeedScale, 20 * SpeedScale,
    20 * SpeedScale + 1 }

(* The default, and lower thresholds of which two coincide.                *)
XCConfigs ==
  { DefaultTuningConfig,
    [DefaultTuningConfig EXCEPT !.XC.EpicThreshold = 6, !.XC.HighThreshold = 4,
                                !.XC.MediumThreshold = 4] }

InitXC ==
  /\ ret = <<>>
  /\ \E cape \in XCCAPEs, cb \in XCCloudbases, ws \in XCSpeeds,
        t \in ThermalRatings, tc \in XCConfigs :
       call = [ fn |-> "CalcXCPotential", cape |-> cape, cloudbaseFt |-> cb,
                windSpeed |-> ws, thermalRating |-> t, tc |-> tc ]

DoCalcXCPotential ==
  /\ call.fn = "CalcXCPotential"
  /\ ret = <<>>
  /\ ret' = <<CalcXCPotential(call.cape, call.cloudbaseFt, call.windSpeed,
                              call.thermalRating, call.tc)>>
  /\ UNCHANGED call

SpecXC == InitXC /\ [][DoCalcXCPotential]_vars

CallStrongConditions ==
  /\ call.tc = DefaultTuningConfig
  /\ call.cape >= call.tc.Thermal.CAPEStrong
  /\ call.cloudbaseFt >= call.tc.XC.GoodCloudbaseFt
  /\ call.thermalRating = "Strong"

CallWindInXCBand ==
  /\ call.windSpeed >= call.tc.XC.MinWindSpeed
  /\ call.windSpeed <= call.tc.XC.MaxWindSpeed

(* C16 as stated: under the default configuration CalcXCPotential is Epic  *)
(* for CAPE >= CAPEStrong, cloudbase >= GoodCloudbaseFt and thermal Strong *)
(* at every wind speed.                                                    *)
C16_EpicAtEveryWindSpeed ==
  (Returned /\ CallStrongConditions) => ret[1] = "Epic"

(* C16 amended: under those conditions CalcXCPotential is Epic when the    *)
(* wind speed is in [XC.MinWindSpeed, XC.MaxWindSpeed], and High at every  *)
(* other wind speed (6 points against an Epic threshold of 7).             *)
C16_EpicInsideWindBand ==
  (Returned /\ CallStrongConditions) =>
     ret[1] = IF CallWindInXCBand THEN "Epic" ELSE "High"

(* CAPE 1000 and cloudbase 4000 ft, both on their thresholds, with thermal *)
(* Strong and a wind of 15 mph.                                            *)
C16_Witness ==
  /\ Returned
  /\ CallStrongConditions
  /\ call.cape = call.tc.Thermal.CAPEStrong
  /\ call.cloudbaseFt = call.tc.XC.GoodCloudbaseFt
  /\ call.windSpeed = 15 * SpeedScale
  /\ ret[1] = "Epic"

XCPoints(thermalRating) ==
  (IF call.cape >= call.tc.Thermal.CAPEStrong THEN 2
   ELSE IF call.cape >= call.tc.Thermal.CAPEModerate THEN 1 ELSE 0)
  + (IF call.cloudbaseFt >= call.tc.XC.GoodCloudbaseFt THEN 2
     ELSE IF call.cloudbaseFt >= call.tc.XC.MinCloudbaseFt THEN 1 ELSE 0)
  + (IF CallWindInXCBand THEN 1 ELSE 0)
  + (CASE thermalRating = "Strong" -> 2
       [] thermalRating = "Moderate" -> 1
       [] thermalRating = "Extreme" -> 1
       [] OTHER -> 0)

XCRatingOfPoints(total, tc) ==
  CASE total >= tc.XC.EpicThreshold -> "Epic"
    [] total < tc.XC.EpicThreshold /\ total >= tc.XC.HighThreshold -> "High"
    [] total < tc.XC.EpicThreshold /\ total < tc.XC.HighThreshold
       /\ total >= tc.XC.MediumThreshold -> "Medium"
    [] OTHER -> "Low"

XCRank(rating) ==
  CASE rating = "Low" -> 0 [] rating = "Medium" -> 1
    [] rating = "High" -> 2 [] rating = "Epic" -> 3

(* C17: CalcXCPotential rates the total of the CAPE points (2, 1 or 0),    *)
(* the cloudbase points (2, 1 or 0), one point for a wind speed in the XC  *)
(* band, and 2, 1, 1 or 0 points for thermal Strong, Moderate, Extreme or  *)
(* anything else, by descending thresholds; and with the other inputs      *)
(* equal, thermal Extreme never rates higher than thermal Strong.          *)
C17_XCPointTotal ==
  Returned =>
    /\ ret[1] = XCRatingOfPoints(XCPoints(call.thermalRating), call.tc)
    /\ XCRank(CalcXCPotential(call.cape, call.cloudbaseFt, call.windSpeed,
                              "Extreme", call.tc))
         <= XCRank(CalcXCPotential(call.cape, call.cloudbaseFt, call.windSpeed,
                                   "Strong", call.tc))

(* Thermal Extreme with 6 points from the rest rates High under the        *)
(* default thresholds, where thermal Strong rates Epic.                    *)
C17_Witness ==
  /\ Returned
  /\ call.tc = DefaultTuningConfig
  /\ call.thermalRating = "Extreme"
  /\ XCPoints("Extreme") = 6
  /\ ret[1] = "High"
  /\ CalcXCPotential(call.cape, call.cloudbaseFt, call.windSpeed, "Strong",
                     call.tc) = "Epic"

-----------------------------------------------------------------------------
(* ComputeHourlyMetrics run by several callers at once.  call holds the    *)
(* memory: the configuration snapshot tc and the observations hours, both  *)
(* reached through pointers and shared by the callers, and one frame per   *)
(* caller with its arguments (h an index into hours, site a copy), its     *)
(* position pc and its locals.  ret maps every caller that has returned to *)
(* the HourlyMetrics it got.  The package has no variables.                *)

MaxWorkers == 2

(* 925 and 700 hPa levels 2250 m and 23 degrees apart: a lapse rate above  *)
(* 10 C/km, which lifts the thermal rating of CAPE 400 from Weak to        *)
(* Strong.                                                                 *)
SteepHour ==
  [ ScoredHour(12 * SpeedScale, 225 * AngleScale, 15 * SpeedScale, 0, 0, 400)
      EXCEPT !.Temperature = 15 * TempScale, !.DewPoint = 5 * TempScale,
             !.PressureLevels =
               << Level(925, 15 * SpeedScale, 10 * TempScale, 750),
                  Level(700, 40 * SpeedScale, -13 * TempScale, 3000) >> ]

SharedHours == <<SteepHour, GoodHour, PoorHour>>

WorkerSites == { ForecastSite, NewSite(330, 30, 0) }

WorkerConfigs == { DefaultTuningConfig, ScaledScoring(15 * ScoreScale, 3) }

(* The frame of a caller on entry.                                         *)
NewFrame(h, site) ==
  [ h |-> h, site |-> site, pc |-> 0,
    gradient |-> [diff |-> 0, rating |-> ""], thermalRating |-> "",
    cloudbase |-> 0 ]

InitWorkers ==
  /\ ret = <<>>
  /\ \E n \in 1..MaxWorkers, tc \in WorkerConfigs :
       \E hs \in [1..n -> DOMAIN SharedHours], sites \in [1..n -> WorkerSites] :
         call = [ fn |-> "ComputeHourlyMetrics", tc |-> tc, hours |-> SharedHours,
                  workers |-> [ w \in 1..n |-> NewFrame(hs[w], sites[w]) ] ]

(* Mutant of windGradientStep: the levels outside 850..1000 hPa are        *)
(* dropped from the observation in place.                                  *)
windGradientStepFilteringInPlace(c, w) ==
  LET f == c.workers[w]
      h == c.hours[f.h]
      inBand(l) == l.Pressure >= PressureLevelMinHPa /\ l.Pressure <= PressureLevelMaxHPa
  IN  [ c EXCEPT !.workers[w].gradient =
                   CalcWindGradient(h.WindSpeed, h.PressureLevels, c.tc),
                 !.workers[w].pc = 1,
                 !.hours[f.h].PressureLevels = SelectSeq(h.PressureLevels, inBand) ]

(* gradientDiff, gradientRating := CalcWindGradient(...)                   *)
windGradientStep(c, w) ==
  LET f == c.workers[w]
      h == c.hours[f.h]
  IN  [ c EXCEPT !.workers[w].gradient =
                   CalcWindGradient(h.WindSpeed, h.PressureLevels, c.tc),
                 !.workers[w].pc = 1 ]

(* thermalRating := CalcThermalRating(...)                                 *)
thermalRatingStep(c, w) ==
  LET f == c.workers[w]
      h == c.hours[f.h]
  IN  [ c EXCEPT !.workers[w].thermalRating =
                   CalcThermalRating(h.CAPE, h.PressureLevels, c.tc),
                 !.workers[w].pc = 2 ]

(* cloudbase := CalcCloudbaseFt(...)                                       *)
cloudbaseStep(c, w) ==
  LET f == c.workers[w]
      h == c.hours[f.h]
  IN  [ c EXCEPT !.workers[w].cloudbase =
                   CalcCloudbaseFt(h.Temperature, h.DewPoint, c.tc),
                 !.workers[w].pc = 3 ]

(* The HourlyMetrics literal of the return statement, built from the       *)
(* locals of the frame and from what h and tc point to at that moment.     *)
returnedMetrics(c, w) ==
  LET f == c.workers[w]
      h == c.hours[f.h]
  IN  [ Time |-> h.Time,
        WindSpeed |-> h.WindSpeed,
        WindDirection |-> h.WindDirection,
        WindDirStr |-> DegreesToCompass(h.WindDirection),
        WindGusts |-> h.WindGusts,
        WindGradient |-> f.gradient.rating,
        WindGradientDiff |-> f.gradient.diff,
        ThermalRating |-> f.thermalRating,
        CAPE |-> h.CAPE,
        CAPERating |-> CalcCAPERating(h.CAPE, c.tc),
        CloudbaseFt |-> f.cloudbase,
        CloudCover |-> h.CloudCover,
        Precipitation |-> h.Precipitation,
        PrecipProb |-> h.PrecipitationProbability,
        OrographicLift |->
          CalcOrographicLift(h.WindDirection, h.WindSpeed, f.site.Aspect, c.tc),
        FlyabilityScore |->
          CalcFlyabilityScore(h, f.site, f.gradient.rating, f.thermalRating, c.tc),
        XCPotential |->
          CalcXCPotential(h.CAPE, f.cloudbase, h.WindSpeed, f.thermalRating, c.tc),
        FreezingLevel |-> <<h.FreezingLevelHeight * 328084, 100000>>,
        IsDay |-> h.IsDay = 1,
        PressureLevels |-> h.PressureLevels ]

(* Mutant of returnStep: on return the observation keeps only the levels   *)
(* of 850..1000 hPa.                                                       *)
returnStepTrimmingLevels(c, w) ==
  LET f == c.workers[w]
      h == c.hours[f.h]
      inBand(l) == l.Pressure >= PressureLevelMinHPa /\ l.Pressure <= PressureLevelMaxHPa
  IN  [ c EXCEPT !.workers[w].pc = 4,
                 !.hours[f.h].PressureLevels = SelectSeq(h.PressureLevels, inBand) ]

(* The memory once the caller has returned.                                *)
returnStep(c, w) == [ c EXCEPT !.workers[w].pc = 4 ]

WorkerAt(w, pc) ==
  /\ call.fn = "ComputeHourlyMetrics"
  /\ w \in DOMAIN call.workers
  /\ call.workers[w].pc = pc

DoWindGradientStep ==
  \E w \in 1..MaxWorkers :
    /\ WorkerAt(w, 0)
    /\ call' = windGradientStep(call, w)
    /\ UNCHANGED ret

DoThermalRatingStep ==
  \E w \in 1..MaxWorkers :
    /\ WorkerAt(w, 1)
    /\ call' = thermalRatingStep(call, w)
    /\ UNCHANGED ret

DoCloudbaseStep ==
  \E w \in 1..MaxWorkers :
    /\ WorkerAt(w, 2)
    /\ call' = cloudbaseStep(call, w)
    /\ UNCHANGED ret

DoReturnStep ==
  \E w \in 1..MaxWorkers :
    /\ WorkerAt(w, 3)
    /\ call' = returnStep(call, w)
    /\ ret' = [ v \in DOMAIN ret \cup {w} |->
                  IF v = w THEN returnedMetrics(call, w) ELSE ret[v] ]

NextWorkers ==
  \/ DoWindGradientStep
  \/ DoThermalRatingStep
  \/ DoCloudbaseStep
  \/ DoReturnStep

SpecWorkers == InitWorkers /\ [][NextWorkers]_vars

(* C18: two invocations with equal observation, site and configuration     *)
(* return equal HourlyMetrics, in particular the same flyability score,    *)
(* whatever ran before or between them.                                    *)
C18_Deterministic ==
  \A v \in DOMAIN ret, w \in DOMAIN ret :
    ( /\ call.workers[v].h = call.workers[w].h
      /\ call.workers[v].site = call.workers[w].site )
    => /\ ret[v] = ret[w]
       /\ ret[v].FlyabilityScore = ret[w].FlyabilityScore

(* Two callers with the same observation and site, one that returned       *)
(* before the other had begun.                                             *)
C18_Witness ==
  /\ call.fn = "ComputeHourlyMetrics"
  /\ DOMAIN call.workers = {1, 2}
  /\ call.workers[1].h = 1 /\ call.workers[2].h = 1
  /\ call.workers[1].site = call.workers[2].site
  /\ DOMAIN ret = {1, 2}
  /\ ret[1] = ret[2]
  /\ ret[1].ThermalRating = "Strong"

(* C19: no step of ComputeHourlyMetrics writes to the configuration or to  *)
(* an observation, and whatever the interleaving every caller gets what    *)
(* ComputeHourlyMetrics returns for its arguments when run alone.          *)
C19_NoWritesNoInterference ==
  [][ /\ call'.tc = call.tc
      /\ call'.hours = call.hours
      /\ \A w \in DOMAIN call.workers : call'.workers[w].site = call.workers[w].site
      /\ \A w \in DOMAIN ret' :
           ret'[w] = ComputeHourlyMetrics(call.hours[call.workers[w].h],
                                          call.workers[w].site, call.tc) ]_vars

(* One caller has returned while another, on the same observation with     *)
(* another site, is between its second and its third estimator.            *)
C19_Witness ==
  /\ call.fn = "ComputeHourlyMetrics"
  /\ DOMAIN call.workers = {1, 2}
  /\ call.workers[1].h = call.workers[2].h
  /\ call.workers[1].site # call.workers[2].site
  /\ call.workers[1].pc = 2
  /\ DOMAIN ret = {2}
  /\ ret[2] = ComputeHourlyMetrics(call.hours[call.workers[2].h],
                                   call.workers[2].site, call.tc)

-----------------------------------------------------------------------------
(* Loading a tuning override: loadTuningConfig of the CLI (viper) and the  *)
(* tuning argument of the WASM computeMetrics (encoding/json).  A          *)
(* TuningConfig is read here as the map from the path of each of its       *)
(* values to that value.                                                   *)

(* tc.Display of DefaultTuningConfig; the icons are named, not drawn.      *)
DefaultDisplay ==
  [ WindStrength |->
      [ Light |-> [RGB |-> "#4fd1c5", Label |-> "Light", Icon |-> "zzz"],
        Moderate |-> [RGB |-> "#48bb78", Label |-> "Moderate", Icon |-> "check"],
        Fresh |-> [RGB |-> "#ecc94b", Label |-> "Fresh", Icon |-> "warning"],
        Strong |-> [RGB |-> "#ed8936", Label |-> "Strong", Icon |-> "orange"],
        VeryStrong |-> [RGB |-> "#f56565", Label |-> "Very Strong", Icon |-> "red"] ],
    Gradient |->
      [ Low |-> [RGB |-> "#48bb78", Icon |-> "check"],
        Medium |-> [RGB |-> "#ecc94b", Icon |-> "warning"],
        High |-> [RGB |-> "#f56565", Icon |-> "red"] ] ]

(* The paths of the values of the seven groups tuned by number.            *)
NumericPaths ==
  UNION { { <<g, f>> : f \in DOMAIN DefaultTuningConfig[g] }
          : g \in DOMAIN DefaultTuningConfig }

DisplayPaths ==
  UNION { UNION { { <<"Display", a, b, f>> : f \in DOMAIN DefaultDisplay[a][b] }
                  : b \in DOMAIN DefaultDisplay[a] }
          : a \in DOMAIN DefaultDisplay }

TuningPaths == NumericPaths \cup DisplayPaths

(* DefaultTuningConfig() as such a map.                                    *)
DefaultTuningValues ==
  [ p \in TuningPaths |->
      IF p[1] = "Display" THEN DefaultDisplay[p[2]][p[3]][p[4]]
      ELSE DefaultTuningConfig[p[1]][p[2]] ]

(* The keys given a default by v.SetDefault: every numeric path, no        *)
(* display path.                                                           *)
viperDefaults == [ p \in NumericPaths |-> DefaultTuningValues[p] ]

(* What v.ReadInConfig leaves in the viper: the values of the file when it *)
(* was read, nothing otherwise.                                            *)
viperConfig(file) == IF file.status = "read" THEN file.values ELSE <<>>

(* Whether loadTuningConfig returns the error of v.ReadInConfig: only for  *)
(* a path given on the command line (a file not found on the search path   *)
(* is a ConfigFileNotFoundError; any error without a given path is         *)
(* ignored).                                                               *)
readError(file) == file.status # "read" /\ file.explicit

(* v.AllSettings(): a key is known by its default or by the file;          *)
(* AutomaticEnv puts the environment before the file and the file before   *)
(* the default, for known keys.                                            *)
viperAllSettings(file, env) ==
  LET config == viperConfig(file)
  IN  [ p \in DOMAIN viperDefaults \cup DOMAIN config |->
          IF p \in DOMAIN env THEN env[p]
          ELSE IF p \in DOMAIN config THEN config[p]
          ELSE viperDefaults[p] ]

(* v.Unmarshal(tc): mapstructure sets the fields the settings hold and     *)
(* leaves the others of tc as they are.                                    *)
viperUnmarshal(tc, settings) ==
  [ p \in DOMAIN tc |-> IF p \in DOMAIN settings THEN settings[p] ELSE tc[p] ]

loadTuningConfig(file, env) ==
  IF readError(file) THEN [tc |-> <<>>, err |-> TRUE]
  ELSE [ tc |-> <<viperUnmarshal(DefaultTuningValues, viperAllSettings(file, env))>>,
         err |-> FALSE ]

(* Mutant of jsonUnmarshal: the object is decoded into an empty            *)
(* TuningConfig, so that the fields it does not name are zero.             *)
jsonUnmarshalIntoZero(tc, object) ==
  [ p \in DOMAIN tc |-> IF p \in DOMAIN object THEN object[p] ELSE 0 ]

(* json.Unmarshal(data, tc) for a JSON object: the fields the object names *)
(* are set, nested objects field by field, the others are left alone.      *)
jsonUnmarshal(tc, object) ==
  [ p \in DOMAIN tc |-> IF p \in DOMAIN object THEN object[p] ELSE tc[p] ]

(* The TuningConfig computeMetrics works with.  The tuning argument is of  *)
(* kind "none" when absent, undefined, null or the empty string, of kind   *)
(* "object" for a JSON object, "malformed" for text json.Unmarshal         *)
(* rejects.                                                                *)
computeMetricsTuning(tuning) ==
  IF tuning.kind = "none" THEN [tc |-> <<DefaultTuningValues>>, err |-> FALSE]
  ELSE IF tuning.kind = "malformed" THEN [tc |-> <<>>, err |-> TRUE]
  ELSE [tc |-> <<jsonUnmarshal(DefaultTuningValues, tuning.object)>>, err |-> FALSE]

(* Values an override may name: one equal to the default, zeros, and a     *)
(* display value, which has no viper default.                              *)
OverridePool ==
  { <<<<"Wind", "IdealMin">>, 10 * SpeedScale>>,
    <<<<"Wind", "IdealMax">>, 18 * SpeedScale>>,
    <<<<"Cloudbase", "MinRealisticFt">>, 0>>,
    <<<<"Scoring", "BaseScore">>, 0>>,
    <<<<"XC", "EpicThreshold">>, 6>>,
    <<<<"Display", "Gradient", "Low", "Icon">>, "ok">> }

EnvPool ==
  { <<<<"Wind", "IdealMin">>, 9 * SpeedScale>>,
    <<<<"Thermal", "CAPEStrong">>, 1200>>,
    <<<<"Display", "Gradient", "Low", "Icon">>, "fine">>,
    <<<<"Display", "WindStrength", "Fresh", "Label">>, "Brisk">> }

(* The partial map holding the pairs of S.                                 *)
OverrideOf(S) ==
  [ p \in { e[1] : e \in S } |-> (CHOOSE e \in S : e[1] = p)[2] ]

ConfigFiles ==
  { [status |-> "read", explicit |-> x, values |-> OverrideOf(S)] :
      x \in BOOLEAN, S \in SUBSET OverridePool }
  \cup { [status |-> st, explicit |-> x, values |-> <<>>] :
           st \in {"missing", "unreadable"}, x \in BOOLEAN }

InitTuning ==
  /\ ret = <<>>
  /\ \/ \E file \in ConfigFiles, E \in SUBSET EnvPool :
          call = [fn |-> "loadTuningConfig", file |-> file, env |-> OverrideOf(E)]
     \/ \E S \in SUBSET OverridePool :
          call = [ fn |-> "computeMetrics",
                   tuning |-> [kind |-> "object", object |-> OverrideOf(S)] ]
     \/ \E k \in {"none", "malformed"} :
          call = [ fn |-> "computeMetrics",
                   tuning |-> [kind |-> k, object |-> <<>>] ]

DoLoadTuningConfig ==
  /\ call.fn = "loadTuningConfig"
  /\ ret = <<>>
  /\ ret' = <<loadTuningConfig(call.file, call.env)>>
  /\ UNCHANGED call

DoComputeMetricsTuning ==
  /\ call.fn = "computeMetrics"
  /\ ret = <<>>
  /\ ret' = <<computeMetricsTuning(call.tuning)>>
  /\ UNCHANGED call

NextTuning == DoLoadTuningConfig \/ DoComputeMetricsTuning

SpecTuning == InitTuning /\ [][NextTuning]_vars

(* The paths the override of the call names.                               *)
CallNamedPaths ==
  IF call.fn = "loadTuningConfig"
  THEN DOMAIN viperConfig(call.file) \cup DOMAIN call.env
  ELSE DOMAIN call.tuning.object

(* C20: the TuningConfig that results from a partial override holds every  *)
(* tuning value; each value the override does not name is that of          *)
(* DefaultTuningConfig; with no override the result is the default.        *)
C20_OverrideMergedOverDefaults ==
  (Returned /\ ~ret[1].err) =>
    LET tc == ret[1].tc[1]
    IN  /\ DOMAIN tc = TuningPaths
        /\ \A p \in TuningPaths \ CallNamedPaths : tc[p] = DefaultTuningValues[p]
        /\ CallNamedPaths = {} => tc = DefaultTuningValues

(* A JSON tuning argument naming only a zero cloudbase floor and an Epic   *)
(* threshold of 6: those two values change, the others are the defaults.   *)
C20_Witness ==
  /\ Returned
  /\ call.fn = "computeMetrics"
  /\ ~ret[1].err
  /\ CallNamedPaths = { <<"Cloudbase", "MinRealisticFt">>, <<"XC", "EpicThreshold">> }
  /\ ret[1].tc[1][<<"Cloudbase", "MinRealisticFt">>] = 0
  /\ ret[1].tc[1][<<"XC", "EpicThreshold">>] = 6
  /\ ret[1].tc[1][<<"XC", "HighThreshold">>] = DefaultTuningConfig.XC.HighThreshold
  /\ ret[1].tc[1][<<"Display", "Gradient", "Low", "Icon">>] = "check"

-----------------------------------------------------------------------------
(* The loop of run over the selected sites (cmd/pgforecast).  call holds   *)
(* the sites, for each what FetchWeather will return for it, the position  *)
(* i of the loop, and what has been written to stdout and stderr.          *)

MaxSites == 3

RunSites == { ForecastSite, NewSite(330, 30, 0) }

(* The weather service answers with one good hour, or fails.               *)
RunFetches ==
  { Fetched({[day |-> 0, hour |-> 12]}, <<GoodHour>>),
    [err |-> TRUE, hourlyData |-> <<>>] }

RunOptions == ForecastOptions(1, "UTC")

InitRun ==
  /\ ret = <<>>
  /\ \E n \in 1..MaxSites :
       \E sites \in [1..n -> RunSites], fetches \in [1..n -> RunFetches] :
         call = [ fn |-> "run", sites |-> sites, fetches |-> fetches,
                  opts |-> RunOptions, now |-> [day |-> 0, hour |-> 6],
                  i |-> 1, stdout |-> <<>>, stderr |-> <<>> ]

(* forecast, err := pgforecast.GenerateForecast(site, opts) for site i.    *)
runForecast(c) ==
  GenerateForecast(c.sites[c.i], c.opts, c.fetches[c.i], c.now)

(* Mutant of runSite: a failing site ends the loop (break for continue).   *)
runSiteBreaking(c) ==
  LET r == runForecast(c)
  IN  IF r.err
      THEN [ c EXCEPT !.stderr = Append(@, <<"Warning", c.i>>),
                      !.i = Len(c.sites) + 1 ]
      ELSE [ c EXCEPT !.stdout = Append(@, r.forecast[1]), !.i = @ + 1 ]

(* One iteration of the loop: a warning on stderr and continue, or the     *)
(* formatted forecast on stdout.                                           *)
runSite(c) ==
  LET r == runForecast(c)
  IN  IF r.err
      THEN [ c EXCEPT !.stderr = Append(@, <<"Warning", c.i>>), !.i = @ + 1 ]
      ELSE [ c EXCEPT !.stdout = Append(@, r.forecast[1]), !.i = @ + 1 ]

DoRunSite ==
  /\ call.fn = "run"
  /\ ret = <<>>
  /\ call.i <= Len(call.sites)
  /\ call' = runSite(call)
  /\ UNCHANGED ret

(* return nil, once the loop has ended.                                    *)
DoRunReturn ==
  /\ call.fn = "run"
  /\ ret = <<>>
  /\ call.i > Len(call.sites)
  /\ ret' = <<[err |-> FALSE]>>
  /\ UNCHANGED call

NextRun == DoRunSite \/ DoRunReturn

SpecRun == InitRun /\ [][NextRun]_vars

(* The positions before i whose site failed, or did not fail, in order.    *)
RunPositions(failed) ==
  SelectSeq([ k \in 1..(call.i - 1) |-> k ],
            LAMBDA k : call.fetches[k].err = failed)

(* C21: a site whose GenerateForecast fails gets a warning and no output;  *)
(* every other site before the position of the loop has its forecast on    *)
(* stdout, in the order of the list; the run returns only after the last   *)
(* site, and without error.                                                *)
C21_FailingSiteSkipped ==
  call.fn = "run" =>
    /\ call.i \in 1..(Len(call.sites) + 1)
    /\ Len(call.stderr) = Len(RunPositions(TRUE))
    /\ \A j \in 1..Len(call.stderr) :
         call.stderr[j] = <<"Warning", RunPositions(TRUE)[j]>>
    /\ Len(call.stdout) = Len(RunPositions(FALSE))
    /\ \A j \in 1..Len(call.stdout) :
         LET k == RunPositions(FALSE)[j]
         IN  call.stdout[j] =
               GenerateForecast(call.sites[k], call.opts, call.fetches[k],
                                call.now).forecast[1]
    /\ Returned => (call.i = Len(call.sites) + 1 /\ ~ret[1].err)

(* Three sites of which the second fails: one warning, the forecasts of    *)
(* the first and the third on stdout, and no error returned.               *)
C21_Witness ==
  /\ call.fn = "run"
  /\ Returned
  /\ ~ret[1].err
  /\ Len(call.sites) = 3
  /\ ~call.fetches[1].err /\ call.fetches[2].err /\ ~call.fetches[3].err
  /\ call.sites[1] # call.sites[3]
  /\ call.stderr = << <<"Warning", 2>> >>
  /\ Len(call.stdout) = 2
  /\ call.stdout[1].Site = call.sites[1]
  /\ call.stdout[2].Site = call.sites[3]

-----------------------------------------------------------------------------
(* tuning.go: DefaultTuningConfig and WindStrengthTierFor called on their  *)
(* own.                                                                    *)

(* Mutant of NewDefaultTuningConfig: the upper ends of the ideal and of    *)
(* the acceptable wind band are exchanged.                                 *)
NewDefaultTuningConfigExchanged ==
  [ DefaultTuningConfig EXCEPT
      !.Wind.IdealMax = DefaultTuningConfig.Wind.AcceptableMax,
      !.Wind.AcceptableMax = DefaultTuningConfig.Wind.IdealMax ]

(* What a call of DefaultTuningConfig() returns: a new TuningConfig of     *)
(* the default values.                                                     *)
NewDefaultTuningConfig == DefaultTuningConfig

(* A TuningConfig with its Display group.                                  *)
WithDisplay(tc, display) ==
  [ g \in DOMAIN tc \cup {"Display"} |-> IF g = "Display" THEN display ELSE tc[g] ]

(* Mutant of WindStrengthTierFor: a speed of exactly IdealMin is Light     *)
(* (<= for <).                                                             *)
WindStrengthTierForInclusive(tc, speed) ==
  IF speed <= tc.Wind.IdealMin THEN tc.Display.WindStrength.Light
  ELSE IF speed <= tc.Wind.IdealMax THEN tc.Display.WindStrength.Moderate
  ELSE IF speed <= tc.Wind.AcceptableMax THEN tc.Display.WindStrength.Fresh
  ELSE IF speed <= tc.Wind.DangerousMax THEN tc.Display.WindStrength.Strong
  ELSE tc.Display.WindStrength.VeryStrong

WindStrengthTierFor(tc, speed) ==
  IF speed < tc.Wind.IdealMin THEN tc.Display.WindStrength.Light
  ELSE IF speed <= tc.Wind.IdealMax THEN tc.Display.WindStrength.Moderate
  ELSE IF speed <= tc.Wind.AcceptableMax THEN tc.Display.WindStrength.Fresh
  ELSE IF speed <= tc.Wind.DangerousMax THEN tc.Display.WindStrength.Strong
  ELSE tc.Display.WindStrength.VeryStrong

(* Speeds in tenths: on, just below and just above every default bound.    *)
TierSpeeds ==
  { 0, 50, 400 }
  \cup UNION { { b * SpeedScale - 1, b * SpeedScale, b * SpeedScale + 1 }
               : b \in {8, 10, 18, 20, 22, 25, 26, 30} }

(* The default bands, and bands in ascending order of which two bounds     *)
(* coincide.                                                               *)
TierWinds ==
  { DefaultTuningConfig.Wind,
    [ DefaultTuningConfig.Wind EXCEPT !.IdealMin = 10 * SpeedScale,
                                      !.IdealMax = 10 * SpeedScale,
                                      !.AcceptableMax = 20 * SpeedScale,
                                      !.DangerousMax = 30 * SpeedScale ] }

(* The default tiers, and tiers relabelled by a configuration file.        *)
TierDisplays ==
  { DefaultDisplay,
    [ DefaultDisplay EXCEPT !.WindStrength.Light.Label = "Calm",
                            !.WindStrength.VeryStrong.Label = "Gale" ] }

InitTier ==
  /\ ret = <<>>
  /\ \/ \E speed \in TierSpeeds, wind \in TierWinds, display \in TierDisplays :
          call = [ fn |-> "WindStrengthTierFor", speed |-> speed,
                   tc |-> WithDisplay([DefaultTuningConfig EXCEPT !.Wind = wind],
                                      display) ]
     \/ call = [fn |-> "DefaultTuningConfig"]

DoDefaultTuningConfig ==
  /\ call.fn = "DefaultTuningConfig"
  /\ ret = <<>>
  /\ ret' = <<NewDefaultTuningConfig>>
  /\ UNCHANGED call

DoWindStrengthTierFor ==
  /\ call.fn = "WindStrengthTierFor"
  /\ ret = <<>>
  /\ ret' = <<WindStrengthTierFor(call.tc, call.speed)>>
  /\ UNCHANGED call

NextTier == DoDefaultTuningConfig \/ DoWindStrengthTierFor

SpecTier == InitTier /\ [][NextTier]_vars

(* C22: the configuration DefaultTuningConfig returns has                  *)
(* IdealMin < IdealMax < AcceptableMax < DangerousMax,                     *)
(* StrongAngle < ModerateAngle < WeakAngle, BaseScore > 0 and              *)
(* Cloudbase.MinRealisticFt > 0.                                           *)
C22_DefaultOrderings ==
  (Returned /\ call.fn = "DefaultTuningConfig") =>
    LET tc == ret[1]
    IN  /\ tc.Wind.IdealMin < tc.Wind.IdealMax
        /\ tc.Wind.IdealMax < tc.Wind.AcceptableMax
        /\ tc.Wind.AcceptableMax < tc.Wind.DangerousMax
        /\ tc.Orographic.StrongAngle < tc.Orographic.ModerateAngle
        /\ tc.Orographic.ModerateAngle < tc.Orographic.WeakAngle
        /\ tc.Scoring.BaseScore > 0
        /\ tc.Cloudbase.MinRealisticFt > 0

(* The returned bands are 8, 18, 22 and 25 mph, the angles 15, 30 and 45.  *)
C22_Witness ==
  /\ Returned
  /\ call.fn = "DefaultTuningConfig"
  /\ ret[1].Wind.IdealMin = 8 * SpeedScale
  /\ ret[1].Wind.IdealMax = 18 * SpeedScale
  /\ ret[1].Wind.AcceptableMax = 22 * SpeedScale
  /\ ret[1].Wind.DangerousMax = 25 * SpeedScale
  /\ ret[1].Orographic.StrongAngle = 15 * AngleScale
  /\ ret[1].Orographic.ModerateAngle = 30 * AngleScale
  /\ ret[1].Orographic.WeakAngle = 45 * AngleScale
  /\ ret[1].Cloudbase.MinRealisticFt = 200

(* C23: WindStrengthTierFor returns exactly one tier: Light below          *)
(* IdealMin, Moderate in [IdealMin, IdealMax], Fresh in                    *)
(* (IdealMax, AcceptableMax], Strong in (AcceptableMax, DangerousMax],     *)
(* Very Strong above DangerousMax; under the defaults 7.9 is Light, 8 and  *)
(* 18 Moderate, 22 Fresh, 25 Strong and 26 Very Strong.                    *)
C23_WindStrengthTiers ==
  (Returned /\ call.fn = "WindStrengthTierFor") =>
    LET w == call.tc.Wind
        t == call.tc.Display.WindStrength
        v == call.speed
    IN  /\ v < w.IdealMin => ret[1] = t.Light
        /\ (w.IdealMin <= v /\ v <= w.IdealMax) => ret[1] = t.Moderate
        /\ (w.IdealMax < v /\ v <= w.AcceptableMax) => ret[1] = t.Fresh
        /\ (w.AcceptableMax < v /\ v <= w.DangerousMax) => ret[1] = t.Strong
        /\ v > w.DangerousMax => ret[1] = t.VeryStrong
        /\ Cardinality({ n \in DOMAIN t : t[n] = ret[1] }) = 1
        /\ w = DefaultTuningConfig.Wind =>
             /\ v = 79 => ret[1].Label \in {"Light", "Calm"}
             /\ v \in {80, 180} => ret[1].Label = "Moderate"
             /\ v = 220 => ret[1].Label = "Fresh"
             /\ v = 250 => ret[1].Label = "Strong"
             /\ v = 260 => ret[1].Label \in {"Very Strong", "Gale"}

(* 8 mph, the lower end of the default ideal band, is Moderate.            *)
C23_Witness ==
  /\ Returned
  /\ call.fn = "WindStrengthTierFor"
  /\ call.tc.Wind = DefaultTuningConfig.Wind
  /\ call.tc.Display = DefaultDisplay
  /\ call.speed = call.tc.Wind.IdealMin
  /\ ret[1] = [RGB |-> "#48bb78", Label |-> "Moderate", Icon |-> "check"]

-----------------------------------------------------------------------------
(* The composition of the flyability score, under SpecFlyability.          *)

(* clamp(round(BaseScore + w + d + g + gr + r + t)) for the call, the      *)
(* adjustments in quarter points.                                          *)
CallScoreOf(w, d, g, gr, r, t) ==
  LET sum == call.tc.Scoring.BaseScore + w + d + g + gr + r + t
      rounded == IF sum >= 0 THEN (2 * sum + ScoreScale) \div (2 * ScoreScale)
                 ELSE -((2 * (-sum) + ScoreScale) \div (2 * ScoreScale))
  IN  IF rounded < 1 THEN 1 ELSE IF rounded > 5 THEN 5 ELSE rounded

(* The wind-speed bucket of the call, by priority.                         *)
CallWindBucket ==
  LET ws == call.h.WindSpeed
      w == call.tc.Wind
  IN  CASE ws >= w.IdealMin /\ ws <= w.IdealMax -> "ideal"
        [] ~(ws >= w.IdealMin /\ ws <= w.IdealMax)
           /\ ws >= w.AcceptableMin /\ ws <= w.AcceptableMax -> "acceptable"
        [] ~(ws >= w.IdealMin /\ ws <= w.IdealMax)
           /\ ~(ws >= w.AcceptableMin /\ ws <= w.AcceptableMax)
           /\ ws > w.DangerousMax -> "danger"
        [] ~(ws >= w.IdealMin /\ ws <= w.IdealMax)
           /\ ~(ws >= w.AcceptableMin /\ ws <= w.AcceptableMax)
           /\ ~(ws > w.DangerousMax)
           /\ ws > w.AcceptableMax -> "high"
        [] OTHER -> "none"

CallW ==
  LET s == call.tc.Scoring
      b == CallWindBucket
  IN  CASE b = "ideal" -> s.WindIdealBonus
        [] b = "acceptable" -> s.WindAcceptableBonus
        [] b = "danger" -> s.WindDangerPenalty
        [] b = "high" -> s.WindHighPenalty
        [] OTHER -> 0

(* Degrees from the direction to the nearer edge of the site range, in     *)
(* quarter degrees.                                                        *)
CallDistance ==
  LET toMin == CircularDifference(call.h.WindDirection, call.site.WindMin * AngleScale)
      toMax == CircularDifference(call.h.WindDirection, call.site.WindMax * AngleScale)
  IN  IF toMin < toMax THEN toMin ELSE toMax

CallDir ==
  IF isInWindRange(call.h.WindDirection, call.site.WindMin, call.site.WindMax)
  THEN call.tc.Scoring.DirOnBonus
  ELSE IF CallDistance > 90 * AngleScale THEN call.tc.Scoring.DirOffPenalty
  ELSE IF CallDistance > 45 * AngleScale THEN -ScoreScale
  ELSE IF CallDistance > 20 * AngleScale THEN -(ScoreScale \div 2)
  ELSE 0

(* The gust factor exists for a wind speed above 0 only.                   *)
CallG ==
  IF call.h.WindSpeed > 0 /\ CallGustFactorAbove(call.tc.Wind.DangerousGustFactor)
    THEN call.tc.Scoring.GustHighPenalty
  ELSE IF call.h.WindSpeed > 0 /\ CallGustFactorAbove(call.tc.Wind.MaxGustFactor)
    THEN call.tc.Scoring.GustMedPenalty
  ELSE 0

CallGr ==
  CASE call.gradientRating = "High" -> call.tc.Scoring.GradientHighPenalty
    [] call.gradientRating = "Medium" -> call.tc.Scoring.GradientMedPenalty
    [] OTHER -> 0

CallR ==
  IF call.h.Precipitation > 0 THEN call.tc.Scoring.RainPenalty
  ELSE IF call.h.PrecipitationProbability > 50 THEN call.tc.Scoring.RainProbPenalty
  ELSE IF call.h.PrecipitationProbability > 30 THEN -(ScoreScale \div 4)
  ELSE 0

CallT ==
  (IF call.tc.Thermal.CAPEModerate <= call.h.CAPE
      /\ call.h.CAPE < call.tc.Thermal.CAPEExtreme
   THEN call.tc.Scoring.CAPEBonus ELSE 0)
  + (IF call.thermalRating \in {"Strong", "Moderate"}
     THEN call.tc.Scoring.ThermalStrongBonus ELSE 0)

(* C24: CalcFlyabilityScore is the clamp to 1..5 of the sum, rounded with  *)
(* halves away from zero, of BaseScore and the six adjustments w, d, g,    *)
(* gr, r and t, each chosen on its own.                                    *)
C24_ScoreComposition ==
  Returned => ret[1] = CallScoreOf(CallW, CallDir, CallG, CallGr, CallR, CallT)

(* An hour under the default configuration whose sum is 2.5 points: ideal *)
(* wind, 46 degrees off the range, medium gradient, rain probability 30,   *)
(* CAPE 300 with thermal Extreme (the CAPE bonus alone).  The half rounds  *)
(* up to 3.                                                                *)
C24_Witness ==
  /\ Returned
  /\ call.tc = DefaultTuningConfig
  /\ CallW = call.tc.Scoring.WindIdealBonus
  /\ CallDistance = 46 * AngleScale
  /\ CallDir = -ScoreScale
  /\ CallG = 0
  /\ CallGr = call.tc.Scoring.GradientMedPenalty
  /\ call.h.PrecipitationProbability = 30 /\ CallR = 0
  /\ call.thermalRating = "Extreme"
  /\ CallT = call.tc.Scoring.CAPEBonus
  /\ 2 * (call.tc.Scoring.BaseScore + CallW + CallDir + CallG + CallGr + CallR + CallT)
       = 5 * ScoreScale
  /\ ret[1] = 3

(* C25: the wind-speed adjustment is one of four values by priority:       *)
(* ideal, else acceptable, else dangerous (> DangerousMax), else high      *)
(* (> AcceptableMax); under the default configuration a speed gets an      *)
(* adjustment exactly when it is at least AcceptableMin.                   *)
C25_WindBucketPriority ==
  Returned =>
    /\ ret[1] = CallScoreOf(CallW,
                  DirectionAdjustment(call.h.WindDirection, call.site, call.tc),
                  GustAdjustment(call.h, call.tc),
                  GradientAdjustment(call.gradientRating, call.tc),
                  RainAdjustment(call.h, call.tc),
                  ThermalAdjustment(call.h, call.thermalRating, call.tc))
    /\ call.tc = DefaultTuningConfig =>
         (CallWindBucket # "none" <=> call.h.WindSpeed >= call.tc.Wind.AcceptableMin)

(* 26 mph inside an ideal band that reaches above DangerousMax takes the   *)
(* ideal bonus, not the danger penalty.                                    *)
C25_Witness ==
  /\ Returned
  /\ call.tc = OverlappingBands
  /\ call.h.WindSpeed = 26 * SpeedScale
  /\ call.h.WindSpeed > call.tc.Wind.DangerousMax
  /\ CallWindBucket = "ideal"
  /\ isInWindRange(call.h.WindDirection, call.site.WindMin, call.site.WindMax)
  /\ CallG = 0 /\ CallGr = 0 /\ CallR = 0 /\ CallT = 0
  /\ ret[1] = 5

-----------------------------------------------------------------------------
(* The fields of the day summary, under SpecDay.                           *)

(* The values of one field over the hours of the call.                     *)
CallField(f) == [ i \in 1..Len(call.metrics) |-> call.metrics[i][f] ]
CallValues(f) == { call.metrics[i][f] : i \in 1..Len(call.metrics) }
CallTotal(f) == SumOver(CallField(f), 1..Len(call.metrics))

ThermalRank ==
  [ r \in {"None", "Weak", "Moderate", "Strong", "Extreme"} |->
      CASE r = "None" -> 0 [] r = "Weak" -> 1 [] r = "Moderate" -> 2
        [] r = "Strong" -> 3 [] r = "Extreme" -> 4 ]

(* C26: for a non-empty list AvgWindSpeed is the mean speed, AvgWindDir    *)
(* the plain arithmetic mean of the directions (350 and 10 give 180,       *)
(* labelled S), MaxGusts and MaxPrecipProb the maxima, AvgCloudbase the    *)
(* integer quotient of the total by the count, ThermalRating the rating of *)
(* highest rank present, and XCPotential is CalcXCPotential of the highest *)
(* CAPE, AvgCloudbase, AvgWindSpeed and that rating.                       *)
C26_DaySummaryFields ==
  (Returned /\ Len(call.metrics) > 0) =>
    LET n == Len(call.metrics)
        s == ret[1]
        totalWind == CallTotal("WindSpeed")
        totalDir == CallTotal("WindDirection")
        totalCloudbase == CallTotal("CloudbaseFt")
        best == CHOOSE r \in CallValues("ThermalRating") :
                  \A q \in CallValues("ThermalRating") :
                    ThermalRank[q] <= ThermalRank[r]
    IN  /\ s.AvgWindSpeed[1] * n = totalWind * s.AvgWindSpeed[2]
        /\ s.AvgWindDir[1] * n = totalDir * s.AvgWindDir[2]
        /\ s.WindDirStr = CompassOfQuotient(totalDir, n)
        /\ s.MaxGusts = SetMax(CallValues("WindGusts"))
        /\ s.MaxPrecipProb = SetMax(CallValues("PrecipProb"))
        /\ s.AvgCloudbase = totalCloudbase \div n
        /\ s.ThermalRating = best
        /\ s.XCPotential =
             XCPotentialOf(SetMax(CallValues("CAPE")),
                           totalCloudbase \div n, totalWind, n, best,
                           call.tc)
        /\ CallField("WindDirection")
             \in { <<350 * AngleScale, 10 * AngleScale>>,
                   <<10 * AngleScale, 350 * AngleScale>> }
           => /\ s.AvgWindDir[1] = 180 * AngleScale * s.AvgWindDir[2]
              /\ s.WindDirStr = "S"

(* Two hours from 350 and from 10 degrees: the day's direction is 180, S;  *)
(* the cloudbase 200 + 3500 averages to 1850 and the thermal is Extreme.   *)
C26_Witness ==
  /\ Returned
  /\ CallField("WindDirection") = <<350 * AngleScale, 10 * AngleScale>>
  /\ CallField("ThermalRating") = <<"None", "Extreme">>
  /\ ret[1].AvgWindDir = <<360 * AngleScale, 2>>
  /\ ret[1].WindDirStr = "S"
  /\ ret[1].AvgCloudbase = 1850
  /\ ret[1].ThermalRating = "Extreme"

-----------------------------------------------------------------------------
(* The days of the forecast, under Spec.                                   *)

CallIndices == 1..Len(call.fetch.hourlyData)

(* The position at which a date first appears in the input.                *)
CallFirstIndex(d) ==
  CHOOSE i \in CallIndices :
    /\ CallLocalDay(i) = d
    /\ \A j \in CallIndices : CallLocalDay(j) = d => i <= j

(* The number of dates that appear before the date d does.                 *)
CallDatesBefore(d) ==
  Cardinality({ e \in CallDates : CallFirstIndex(e) < CallFirstIndex(d) })

(* The hours of the date d with local hour 8..18.                          *)
CallInWindow(d) ==
  { i \in CallIndices :
      CallLocalDay(i) = d /\ CallLocalHour(i) >= 8 /\ CallLocalHour(i) <= 18 }

(* The later dates that have an hour inside the window.                    *)
CallExtendedDates ==
  { d \in CallDates : CallDatesBefore(d) >= CallD /\ CallInWindow(d) # {} }

(* The local time of the observation i.                                    *)
CallLocalTime(i) == [day |-> CallLocalDay(i), hour |-> CallLocalHour(i)]

(* hours holds, in input order, the metrics of exactly the observations I. *)
HoldsInOrder(hours, I) ==
  /\ Len(hours) = Cardinality(I)
  /\ \A k \in 1..Len(hours) :
       \E i \in I :
         /\ Cardinality({ j \in I : j < i }) = k - 1
         /\ hours[k] =
              [ ComputeHourlyMetrics(call.fetch.hourlyData[i], call.site,
                                     DefaultTuningConfig)
                  EXCEPT !.Time = CallLocalTime(i) ]

C28_DayScoresInRange ==
  (Returned /\ ~ret[1].err) =>
    LET f == ret[1].forecast[1]
    IN  /\ \A k \in 1..Len(f.DetailedDays) :
             f.DetailedDays[k].Summary.BestScore \in 1..5
        /\ \A k \in 1..Len(f.ExtendedDays) :
             f.ExtendedDays[k].BestScore \in 1..5

-----------------------------------------------------------------------------
(* distanceFromWindRange called on its own, on the directions and edges of *)
(* SpecWindRange.                                                          *)

InitWindDistance ==
  /\ ret = <<>>
  /\ \E dir \in RangeDirections, min \in RangeEdges, max \in RangeEdges :
       call = [ fn |-> "distanceFromWindRange", dir |-> dir,
                min |-> min, max |-> max ]

DoDistanceFromWindRange ==
  /\ call.fn = "distanceFromWindRange"
  /\ ret = <<>>
  /\ ret' = <<distanceFromWindRange(call.dir, call.min, call.max)>>
  /\ UNCHANGED call

SpecWindDistance == InitWindDistance /\ [][DoDistanceFromWindRange]_vars

(* C29: for dir in [0, 360] and integer edges in 0..360 the distance is 0  *)
(* iff isInWindRange holds; outside the range it is the circular distance  *)
(* to the nearer edge, strictly positive and at most 180.                  *)
C29_DistanceZeroIffInRange ==
  Returned =>
    LET inRange == isInWindRange(call.dir, call.min, call.max)
        toMin == CircularDifference(call.dir, call.min * AngleScale)
        toMax == CircularDifference(call.dir, call.max * AngleScale)
    IN  /\ (ret[1] = 0) <=> inRange
        /\ ~inRange =>
             /\ ret[1] = IF toMin < toMax THEN toMin ELSE toMax
             /\ ret[1] > 0
             /\ ret[1] <= 180 * AngleScale

-----------------------------------------------------------------------------
(* CalcFlyabilityScore and ComputeHourlyMetrics called twice on the same   *)
(* arguments, under two configurations that differ in Gradient.HighPenalty *)
(* and Gradient.MediumPenalty only.                                        *)

(* Hours of ideal wind 21 degrees off the range of ForecastSite, with 0,   *)
(* 15 and 23 mph more wind at 950 hPa: gradient Low, Medium and High.      *)
PenaltyHours ==
  { [ ScoredHour(12 * SpeedScale, 281 * AngleScale, 15 * SpeedScale, 0, 0, 0)
        EXCEPT !.PressureLevels = << Level(950, upper * SpeedScale, 0, 500) >> ] :
    upper \in {12, 27, 35} }

PenaltySites == { ForecastSite, NewSite(330, 30, 0) }

PenaltyValues == { -5 * ScoreScale, -2 * ScoreScale, 0 }

WithGradientPenalties(tc, high, medium) ==
  [ tc EXCEPT !.Gradient.HighPenalty = high, !.Gradient.MediumPenalty = medium ]

InitPenalty ==
  /\ ret = <<>>
  /\ \E h \in PenaltyHours, site \in PenaltySites,
        tc \in { DefaultTuningConfig, ScaledScoring(15 * ScoreScale, 3) },
        high \in [1..2 -> PenaltyValues], medium \in [1..2 -> PenaltyValues] :
       LET tcs == [ k \in 1..2 |-> WithGradientPenalties(tc, high[k], medium[k]) ]
       IN  \/ call = [ fn |-> "ComputeHourlyMetrics", h |-> h, site |-> site,
                       tcs |-> tcs ]
           \/ \E g \in GradientRatings :
                call = [ fn |-> "CalcFlyabilityScore", h |-> h, site |-> site,
                         gradientRating |-> g, thermalRating |-> "None",
                         tcs |-> tcs ]

(* The results with that of the call under configuration k added.          *)
WithResult(k, result) ==
  [ j \in DOMAIN ret \cup {k} |-> IF j = k THEN result ELSE ret[j] ]

DoScoreUnder(k) ==
  /\ call.fn = "CalcFlyabilityScore"
  /\ k \notin DOMAIN ret
  /\ ret' = WithResult(k, CalcFlyabilityScore(call.h, call.site,
                            call.gradientRating, call.thermalRating, call.tcs[k]))
  /\ UNCHANGED call

DoMetricsUnder(k) ==
  /\ call.fn = "ComputeHourlyMetrics"
  /\ k \notin DOMAIN ret
  /\ ret' = WithResult(k, ComputeHourlyMetrics(call.h, call.site, call.tcs[k]))
  /\ UNCHANGED call

NextPenalty == \E k \in 1..2 : DoScoreUnder(k) \/ DoMetricsUnder(k)

SpecPenalty == InitPenalty /\ [][NextPenalty]_vars

(* C30: the flyability score does not depend on Gradient.HighPenalty and   *)
(* Gradient.MediumPenalty: under two configurations that differ in these   *)
(* two values only CalcFlyabilityScore and ComputeHourlyMetrics return the *)
(* same; the gradient penalty applied is Scoring.GradientHighPenalty for   *)
(* High and Scoring.GradientMedPenalty for Medium.                         *)
C30_GradientGroupPenaltiesUnused ==
  /\ \A j \in DOMAIN ret : \A k \in DOMAIN ret : ret[j] = ret[k]
  /\ call.fn = "CalcFlyabilityScore" =>
       \A k \in DOMAIN ret :
         LET tc == call.tcs[k]
             gr == CASE call.gradientRating = "High" -> tc.Scoring.GradientHighPenalty
                     [] call.gradientRating = "Medium" -> tc.Scoring.GradientMedPenalty
                     [] OTHER -> 0
         IN  ret[k] = ClampScore(MathRound(
                        tc.Scoring.BaseScore
                        + WindSpeedAdjustment(call.h.WindSpeed, tc)
                        + DirectionAdjustment(call.h.WindDirection, call.site, tc)
                        + GustAdjustment(call.h, tc)
                        + gr
                        + RainAdjustment(call.h, tc)
                        + ThermalAdjustment(call.h, call.thermalRating, tc),
                        ScoreScale))

(* An hour of High gradient under the default configuration with           *)
(* Gradient.HighPenalty -5 and with 0: both calls of ComputeHourlyMetrics  *)
(* return score 2 (3.0 - 1.5 = 1.5 points).                                *)
C30_Witness ==
  /\ call.fn = "ComputeHourlyMetrics"
  /\ DOMAIN ret = {1, 2}
  /\ call.site = ForecastSite
  /\ call.tcs[1] = WithGradientPenalties(DefaultTuningConfig, -5 * ScoreScale, 0)
  /\ call.tcs[2] = WithGradientPenalties(DefaultTuningConfig, 0, -5 * ScoreScale)
  /\ ret[1].WindGradient = "High"
  /\ ret[1].FlyabilityScore = 2
  /\ ret[2].FlyabilityScore = 2

====
